---- MODULE Spec2Model ----
(***************************************************************************)
(* A model of the manual memory allocators of avilaops/Kernel:             *)
(*   Arena             src/avila-math/src/memory/arena.rs                  *)
(*   StackAllocator    src/src/memory/stack.rs                             *)
(*   DoubleEndedStack  src/src/memory/stack.rs                             *)
(*   Pool              src/avila-math/src/memory/pool.rs                   *)
(*   MemoryStats       src/avila-math/src/memory/manager.rs                *)
(*   MemoryManager     src/avila-math/src/memory/manager.rs                *)
(*   MemoryProfiler    src/avila-math/src/memory/manager.rs                *)
(*   PoolBox           src/avila-math/src/memory/pool.rs                   *)
(* Offsets are byte offsets from the base of the allocator's block.        *)
(*                                                                         *)
(* usize is modelled with WordBits bits (TLC's integers are 32 bits wide,  *)
(* the target's usize is 64): every usize addition of the code is either   *)
(* taken modulo Word or, where the code uses checked_add / checked_sub,    *)
(* refused when it leaves 0 .. Word-1.                                     *)
(*                                                                         *)
(* Each run drives one allocator object, named by subject; the variables   *)
(* of the other allocators keep their initial value.                       *)
(***************************************************************************)
EXTENDS Integers, Sequences, FiniteSets, TLC

VARIABLES
    subject,         \* the allocator object this run constructs and drives
    debug_build,     \* cfg(debug_assertions): whether debug_assert! is compiled in
    arena_capacity,  \* Arena.capacity
    arena_offset,    \* Arena.offset (the cursor)
    arena_saved,     \* the ArenaCheckpoint values and ScopedArena guards the caller holds
    arena_run,       \* history: the end of the last region returned since the last rewind
    arena_last,      \* the last Arena call: its arguments, the cursor before it, its result
    stack_capacity,  \* StackAllocator.capacity
    stack_offset,    \* StackAllocator.offset (the cursor)
    stack_live,      \* the allocations the caller holds and has not freed, oldest first,
                     \* each with the AllocationHeader bytes now in front of its payload
    stack_saved,     \* the StackMark values and ScopedStack guards the caller holds
    stack_lifo,      \* history: the caller has kept the LIFO discipline so far
    stack_last,      \* the last StackAllocator call
    des_capacity,    \* DoubleEndedStack.capacity
    bottom_offset,   \* DoubleEndedStack.bottom_offset (the cursor growing up from 0)
    top_offset,      \* DoubleEndedStack.top_offset (the cursor growing down from capacity)
    des_last,        \* the last DoubleEndedStack call: its arguments, the cursors
                     \* before it, its result
    chunk_size,      \* Pool.chunk_size
    chunk_align,     \* Pool.chunk_align
    chunks_per_block, \* Pool.chunks_per_block
    blocks,          \* Pool.blocks: the owned blocks, oldest first
    free_list,       \* Pool.free_list: a Vec of chunk addresses, popped from its end
    total_allocated, \* Pool.total_allocated
    total_freed,     \* Pool.total_freed
    pool_live,       \* the chunk addresses the caller holds and has not freed
    pool_sound,      \* history: every free so far released a chunk the caller held
    pool_last,       \* the last Pool call: its argument, the state before it, its result
    pool_boxes,      \* the PoolBox leases in scope
    total_allocations,        \* MemoryStats.total_allocations
    total_deallocations,      \* MemoryStats.total_deallocations
    total_bytes_allocated,    \* MemoryStats.total_bytes_allocated
    total_bytes_deallocated,  \* MemoryStats.total_bytes_deallocated
    peak_memory_usage,        \* MemoryStats.peak_memory_usage
    current_memory_usage,     \* MemoryStats.current_memory_usage
    stats_thread,    \* per thread: the MemoryStats call it is in, its position in the
                     \* call and the call's local variables
    stats_hist,      \* history: the calls made on the MemoryStats so far
    shared_thread,   \* per thread sharing an Arena: its position in Arena::alloc and
                     \* the call's local variables
    shared_granted,  \* history: the regions Arena::alloc returned to the threads
    allocators,      \* MemoryManager.allocators: the stored (name, AllocatorInfo) entries
    manager_last,    \* the last MemoryManager call: its arguments and its result
    samples,         \* MemoryProfiler.samples, oldest first
    sample_interval, \* MemoryProfiler.sample_interval, in clock ticks
    last_sample,     \* MemoryProfiler.last_sample: an Option<Instant>
    clock,           \* the monotonic clock Instant::now() reads, in ticks
    profiler_last,   \* the last MemoryProfiler call: the state before it, its result
    new_last         \* the last constructor call: its arguments and its outcome

arena_vars == <<arena_capacity, arena_offset, arena_saved, arena_run, arena_last>>

stack_vars == <<stack_capacity, stack_offset, stack_live, stack_saved, stack_lifo,
                stack_last>>

des_vars == <<des_capacity, bottom_offset, top_offset, des_last>>

pool_vars == <<chunk_size, chunk_align, chunks_per_block, blocks, free_list,
               total_allocated, total_freed, pool_live, pool_sound, pool_last,
               pool_boxes>>

stats_vars == <<total_allocations, total_deallocations, total_bytes_allocated,
                total_bytes_deallocated, peak_memory_usage, current_memory_usage,
                stats_thread, stats_hist>>

shared_vars == <<shared_thread, shared_granted>>

manager_vars == <<allocators, manager_last>>

profiler_vars == <<samples, sample_interval, last_sample, clock, profiler_last>>

registry_vars == <<manager_vars, profiler_vars>>

vars == <<subject, debug_build, arena_vars, stack_vars, des_vars, pool_vars, stats_vars,
          shared_vars, registry_vars, new_last>>

----------------------------------------------------------------------------
(* Bounds of the model *)

WordBits == 8            \* width of the modelled usize
MaxSaved == 2            \* checkpoints and ScopedArena guards a caller holds at once
MaxMarks == 1            \* marks and ScopedStack guards a caller holds at once
MaxLive == 3             \* stack allocations a caller holds at once
MaxPoolAllocs == 5       \* Pool::alloc calls of one run
MaxBoxes == 2            \* PoolBox leases in scope at once
MaxManagerRecords == 1   \* record_allocation calls on a manager's global stats
MaxClock == 6            \* ticks of the monotonic clock in one run
MaxSamples == 3          \* samples a MemoryProfiler records before it is cleared
MaxStatsCalls == 3       \* MemoryStats calls of one run
MaxSharedAllocs == 3     \* regions a shared Arena grants in one run

Word == 2^WordBits
UsizeMax == Word - 1
IsizeMax == (Word \div 2) - 1

\* Alignments the callers pass: powers of two, up to the largest a usize holds.
Aligns == {1, 32, Word \div 2}

\* Sizes the callers pass: small ones, the scenario's 32, and one that makes
\* aligned_offset + size leave the machine word.
Sizes == {0, 16, 32, UsizeMax}

\* The callers' sizes and alignments keep every cursor a multiple of 16, so that an
\* AllocationHeader is always written to an address aligned for it and two headers
\* in the block either coincide or are disjoint.

\* Capacities the runs construct an Arena with (Layout::from_size_align(capacity, 16)
\* accepts a capacity that, rounded up to 16, does not exceed isize::MAX).
ArenaCapacities == {40, 64}

\* Capacities the runs construct a StackAllocator with.
StackCapacities == {64}

\* Capacities the runs construct a DoubleEndedStack with, and the requests its
\* callers make (the double-ended stack writes no headers, so odd sizes are fine).
DesCapacities == {16, 24}

DesSizes == {0, 1, 8, UsizeMax}

DesAligns == {1, 8, Word \div 2}

\* The pools the runs construct: Pool::new(chunk_size, chunk_align, chunks_per_block).
PoolShapes == {[chunk_size |-> 8, chunk_align |-> 8, chunks_per_block |-> 4],
               [chunk_size |-> 12, chunk_align |-> 8, chunks_per_block |-> 2],
               [chunk_size |-> 8, chunk_align |-> 16, chunks_per_block |-> 1]}

----------------------------------------------------------------------------
(* Bit arithmetic on usize, as the code computes it *)

RECURSIVE BitAnd(_, _, _)
\* x & y over the low n bits
BitAnd(x, y, n) ==
    IF n = 0 THEN 0
    ELSE (IF x % 2 = 1 /\ y % 2 = 1 THEN 1 ELSE 0)
         + 2 * BitAnd(x \div 2, y \div 2, n - 1)

\* !x on a usize
BitNot(x) == UsizeMax - x

\* a faulty align_up: rounds down to a multiple of align
align_up_truncating(value, align) ==
    BitAnd(value, BitNot((align - 1) % Word), WordBits)

\* fn align_up(value, align) = (value + align - 1) & !(align - 1), wrapping
align_up(value, align) ==
    BitAnd((value + align - 1) % Word, BitNot((align - 1) % Word), WordBits)

\* usize::checked_add: the sum, or no value when it overflows
checked_add_ok(a, b) == a + b <= UsizeMax

----------------------------------------------------------------------------
(* Arena *)

\* No region has been returned since the last rewind of the cursor.
NoRun == [any |-> FALSE, end |-> 0]

\* The record of a call: op(size, align) or op(saved), made with the cursor at pre;
\* ok is FALSE for a refused alloc (None) and for a panic, off is the returned offset.
\* used_at and clean are the history of the checkpoint passed, prev the run before.
NoCall == [op |-> "none", size |-> 0, align |-> 1, saved |-> 0, used_at |-> 0,
           clean |-> FALSE, pre |-> 0, ok |-> TRUE, off |-> 0, prev |-> NoRun]

\* Arena::used
ArenaUsed == arena_offset

\* Arena::available
ArenaAvailable == arena_capacity - ArenaUsed

\* The record of a StackAllocator call: op(size, align), op(pointer) or op(mark),
\* made with the cursor at pre; ok is FALSE for a refused alloc and for a panic;
\* hdr and off are the header and payload offsets of the allocation returned or
\* freed. History of the call's argument: used_at (used() when the allocation or
\* the mark was made), top (the freed allocation was the caller's most recent
\* live one), valid (the cursor never went below the mark), chain (where freeing
\* one by one, newest first, every live allocation made after the mark would have
\* left the cursor).
StackNoCall == [op |-> "none", size |-> 0, align |-> 1, pre |-> 0, ok |-> TRUE,
                hdr |-> 0, off |-> 0, saved |-> 0, used_at |-> 0, top |-> FALSE,
                valid |-> FALSE, chain |-> [ok |-> TRUE, off |-> 0]]

\* The variables of an allocator the run does not construct.
ArenaIdle ==
    /\ arena_capacity = 0
    /\ arena_offset = 0
    /\ arena_saved = <<>>
    /\ arena_run = NoRun
    /\ arena_last = NoCall

StackIdle ==
    /\ stack_capacity = 0
    /\ stack_offset = 0
    /\ stack_live = <<>>
    /\ stack_saved = <<>>
    /\ stack_lifo = TRUE
    /\ stack_last = StackNoCall

\* the last-call record of a DoubleEndedStack no call was made on
DesNoCall == [op |-> "none", size |-> 0, align |-> 1, bottom |-> 0, top |-> 0,
              ok |-> TRUE, off |-> 0]

DesIdle ==
    /\ des_capacity = 0
    /\ bottom_offset = 0
    /\ top_offset = 0
    /\ des_last = DesNoCall

\* A chunk address: the block it lies in (blocks are numbered in the order the
\* system allocator handed them out, from 1) and its byte offset from the block's
\* base. Foreign is an address outside every block of the pool.
Foreign == [block |-> 0, off |-> 0]

\* the last-call record of a Pool no call was made on
PoolNoCall == [op |-> "none", ptr |-> Foreign, held |-> FALSE, fresh |-> FALSE,
               pre_free |-> 0, pre_blocks |-> 0, pre_in_use |-> 0,
               lease |-> [ptr |-> Foreign, before |-> 0, others |-> 0]]

PoolIdle ==
    /\ chunk_size = 0
    /\ chunk_align = 1
    /\ chunks_per_block = 0
    /\ blocks = <<>>
    /\ free_list = <<>>
    /\ total_allocated = 0
    /\ total_freed = 0
    /\ pool_live = {}
    /\ pool_sound = TRUE
    /\ pool_last = PoolNoCall
    /\ pool_boxes = {}

\* The threads that share one MemoryStats, and the sizes they record.
StatsThreads == {1, 2}

StatsSizes == {1, 2}

\* a thread that is in no MemoryStats call
StatsNoCall == [pc |-> "idle", op |-> "none", size |-> 0, current |-> 0, peak |-> 0,
                pre_peak |-> 0, pre_current |-> 0]

\* no MemoryStats call was made: calls counts the calls, allocs / deallocs /
\* alloc_bytes / dealloc_bytes the record_allocation and record_deallocation calls
\* and the sizes passed, resets the reset calls; high is the greatest value
\* current_memory_usage has held, fit says that no record_deallocation took more
\* than the current usage
StatsNoHist == [calls |-> 0, allocs |-> 0, deallocs |-> 0, alloc_bytes |-> 0,
                dealloc_bytes |-> 0, resets |-> 0, high |-> 0, fit |-> TRUE]

StatsIdle ==
    /\ total_allocations = 0
    /\ total_deallocations = 0
    /\ total_bytes_allocated = 0
    /\ total_bytes_deallocated = 0
    /\ peak_memory_usage = 0
    /\ current_memory_usage = 0
    /\ stats_thread = [t \in StatsThreads |-> StatsNoCall]
    /\ stats_hist = StatsNoHist

\* The threads that share one Arena.
SharedThreads == {1, 2}

\* The sizes and alignments they request.
SharedSizes == {16, 32}

SharedAligns == {1, 32}

\* a thread that is in no Arena::alloc call
SharedNoCall == [pc |-> "idle", size |-> 0, align |-> 1, current_offset |-> 0]

SharedIdle ==
    /\ shared_thread = [t \in SharedThreads |-> SharedNoCall]
    /\ shared_granted = <<>>

\* an AllocatorInfo of an allocator without memory
NoInfo == [total_capacity |-> 0, used |-> 0, available |-> 0]

\* the last-call record of a MemoryManager no call was made on: op(name, info), ok
\* (FALSE for a panic) and the totals of the MemoryReport returned; replaced is
\* history: a register_allocator call since the last reset_stats found its name
\* already stored
ManagerNoCall == [op |-> "none", name |-> "", info |-> NoInfo, ok |-> TRUE,
                  total_allocated |-> 0, total_used |-> 0, total_free |-> 0,
                  allocator_count |-> 0, replaced |-> FALSE]

ManagerIdle ==
    /\ allocators = {}
    /\ manager_last = ManagerNoCall

\* Option<Instant>::None
NoInstant == [some |-> FALSE, at |-> 0]

\* the last-call record of a MemoryProfiler no call was made on
ProfilerNoCall == [op |-> "none", now |-> 0, recorded |-> FALSE, pre_samples |-> <<>>,
                   pre_last |-> NoInstant]

ProfilerIdle ==
    /\ samples = <<>>
    /\ sample_interval = 0
    /\ last_sample = NoInstant
    /\ clock = 0
    /\ profiler_last = ProfilerNoCall

RegistryIdle == ManagerIdle /\ ProfilerIdle

\* no constructor was observed: the run starts with the allocator constructed
NewNoCall == [type |-> "none", capacity |-> 0, chunk_size |-> 0, chunk_align |-> 0,
              chunks_per_block |-> 0, ok |-> TRUE]

\* Arena::new
InitArena ==
    /\ RegistryIdle
    /\ new_last = NewNoCall
    /\ StackIdle
    /\ DesIdle
    /\ PoolIdle
    /\ StatsIdle
    /\ SharedIdle
    /\ subject = "Arena"
    /\ debug_build = FALSE      \* arena.rs has no debug_assert!
    /\ arena_capacity \in ArenaCapacities
    /\ arena_offset = 0
    /\ arena_saved = <<>>
    /\ arena_run = NoRun
    /\ arena_last = NoCall

\* every held checkpoint has seen a call that is not an alloc
Dirty(saved) == [i \in DOMAIN saved |-> [saved[i] EXCEPT !.allocs_only = FALSE]]

Remove(s, i) == [j \in 1 .. (Len(s) - 1) |-> IF j < i THEN s[j] ELSE s[j + 1]]

\* the new cursor of Arena::alloc, given the aligned offset and the size
ArenaNewOffset(aligned_offset, size) == aligned_offset + size

\* a faulty exhaustion test: only the overflow is refused
ArenaAllocFails_unchecked(aligned_offset, size) ==
    ~checked_add_ok(aligned_offset, size)

\* a faulty exhaustion test: an exact fit is refused too
ArenaAllocFails_strict(aligned_offset, size) ==
    \/ ~checked_add_ok(aligned_offset, size)
    \/ ArenaNewOffset(aligned_offset, size) >= arena_capacity

\* whether Arena::alloc refuses: checked_add overflowed, or new_offset > capacity
ArenaAllocFails(aligned_offset, size) ==
    \/ ~checked_add_ok(aligned_offset, size)
    \/ ArenaNewOffset(aligned_offset, size) > arena_capacity

\* a faulty alloc: the cursor keeps the alignment padding when the request is refused
ArenaOffsetOnFailure_padded(current_offset, aligned_offset) == aligned_offset

\* the cursor after a refused request: alloc returns None before self.offset.set
ArenaOffsetOnFailure(current_offset, aligned_offset) == current_offset

\* Arena::alloc(size, align); ScopedArena::alloc delegates to it
ArenaAlloc(size, align) ==
    /\ subject = "Arena"
    /\ LET current_offset == arena_offset
           aligned_offset == align_up(current_offset, align)
       IN  IF ArenaAllocFails(aligned_offset, size)
           THEN /\ arena_offset' = ArenaOffsetOnFailure(current_offset, aligned_offset)
                /\ arena_run' = arena_run
                /\ arena_last' = [NoCall EXCEPT !.op = "alloc", !.size = size,
                                    !.align = align, !.pre = current_offset,
                                    !.ok = FALSE, !.prev = arena_run]
           ELSE /\ arena_offset' = ArenaNewOffset(aligned_offset, size)
                /\ arena_run' = [any |-> TRUE, end |-> aligned_offset + size]
                /\ arena_last' = [NoCall EXCEPT !.op = "alloc", !.size = size,
                                    !.align = align, !.pre = current_offset,
                                    !.ok = TRUE, !.off = aligned_offset,
                                    !.prev = arena_run]
    /\ UNCHANGED <<stack_vars, des_vars, pool_vars, stats_vars, shared_vars, registry_vars, new_last, subject, debug_build, arena_capacity, arena_saved>>

\* a faulty reset: the cursor is left where it is
ArenaResetOffset_kept == arena_offset

\* the cursor Arena::reset leaves
ArenaResetOffset == 0

\* Arena::reset
ArenaReset ==
    /\ subject = "Arena"
    /\ arena_offset' = ArenaResetOffset
    /\ arena_saved' = Dirty(arena_saved)
    /\ arena_run' = NoRun
    /\ arena_last' = [NoCall EXCEPT !.op = "reset", !.pre = arena_offset]
    /\ UNCHANGED <<stack_vars, des_vars, pool_vars, stats_vars, shared_vars, registry_vars, new_last, subject, debug_build, arena_capacity>>

\* the ArenaCheckpoint that Arena::checkpoint builds
ArenaCheckpointValue == arena_offset

\* Arena::checkpoint: the caller keeps the returned value
ArenaCheckpoint ==
    /\ subject = "Arena"
    /\ Len(arena_saved) < MaxSaved
    /\ arena_saved' = Append(Dirty(arena_saved),
                             [offset |-> ArenaCheckpointValue, used_at |-> ArenaUsed,
                              allocs_only |-> TRUE, scoped |-> FALSE])
    /\ arena_last' = [NoCall EXCEPT !.op = "checkpoint", !.pre = arena_offset,
                        !.off = ArenaCheckpointValue]
    /\ UNCHANGED <<stack_vars, des_vars, pool_vars, stats_vars, shared_vars, registry_vars, new_last, subject, debug_build, arena_capacity, arena_offset, arena_run>>

\* a faulty restore: the checkpoint is not compared with the cursor
ArenaRestoreAccepts_any(checkpoint_offset) == TRUE

\* the assert! of Arena::restore
ArenaRestoreAccepts(checkpoint_offset) == checkpoint_offset <= arena_offset

\* a faulty restore: rewinds the whole arena
ArenaRestoreOffset_reset(checkpoint_offset) ==
    IF ArenaRestoreAccepts(checkpoint_offset) THEN 0 ELSE arena_offset

\* the cursor after Arena::restore(checkpoint): a failed assert! panics before the set
ArenaRestoreOffset(checkpoint_offset) ==
    IF ArenaRestoreAccepts(checkpoint_offset) THEN checkpoint_offset ELSE arena_offset

\* Arena::restore(checkpoint) with a checkpoint the caller holds (ArenaCheckpoint is Copy)
ArenaRestore(i) ==
    /\ subject = "Arena"
    /\ i \in DOMAIN arena_saved
    /\ ~arena_saved[i].scoped
    /\ arena_offset' = ArenaRestoreOffset(arena_saved[i].offset)
    /\ arena_saved' = Dirty(arena_saved)
    /\ arena_last' = [NoCall EXCEPT !.op = "restore", !.pre = arena_offset,
                        !.saved = arena_saved[i].offset,
                        !.used_at = arena_saved[i].used_at,
                        !.clean = arena_saved[i].allocs_only,
                        !.ok = ArenaRestoreAccepts(arena_saved[i].offset)]
    /\ arena_run' = NoRun
    /\ UNCHANGED <<stack_vars, des_vars, pool_vars, stats_vars, shared_vars, registry_vars, new_last, subject, debug_build, arena_capacity>>

\* the caller lets a checkpoint value go: a plain Copy value, nothing runs
ArenaForget(i) ==
    /\ subject = "Arena"
    /\ i \in DOMAIN arena_saved
    /\ ~arena_saved[i].scoped
    /\ arena_saved' = Remove(arena_saved, i)
    /\ UNCHANGED <<stack_vars, des_vars, pool_vars, stats_vars, shared_vars, registry_vars, new_last, subject, debug_build, arena_capacity, arena_offset, arena_run,
                   arena_last>>

\* ScopedArena::new: takes a checkpoint and keeps it in the guard
ScopedArenaNew ==
    /\ subject = "Arena"
    /\ Len(arena_saved) < MaxSaved
    /\ arena_saved' = Append(Dirty(arena_saved),
                             [offset |-> ArenaCheckpointValue, used_at |-> ArenaUsed,
                              allocs_only |-> FALSE, scoped |-> TRUE])
    /\ arena_last' = [NoCall EXCEPT !.op = "scoped_new", !.pre = arena_offset,
                        !.off = ArenaCheckpointValue]
    /\ UNCHANGED <<stack_vars, des_vars, pool_vars, stats_vars, shared_vars, registry_vars, new_last, subject, debug_build, arena_capacity, arena_offset, arena_run>>

\* Drop for ScopedArena: restore(self.checkpoint); the guard is gone afterwards,
\* also when restore panicked. Guards are values: they may be dropped in any order.
ScopedArenaDrop(i) ==
    /\ subject = "Arena"
    /\ i \in DOMAIN arena_saved
    /\ arena_saved[i].scoped
    /\ arena_offset' = ArenaRestoreOffset(arena_saved[i].offset)
    /\ arena_saved' = Remove(Dirty(arena_saved), i)
    /\ arena_last' = [NoCall EXCEPT !.op = "scoped_drop", !.pre = arena_offset,
                        !.saved = arena_saved[i].offset,
                        !.used_at = arena_saved[i].used_at,
                        !.clean = arena_saved[i].allocs_only,
                        !.ok = ArenaRestoreAccepts(arena_saved[i].offset)]
    /\ arena_run' = NoRun
    /\ UNCHANGED <<stack_vars, des_vars, pool_vars, stats_vars, shared_vars, registry_vars, new_last, subject, debug_build, arena_capacity>>

\* one call on the Arena, the requests drawn from the given sizes and alignments
ArenaStep(sizes, aligns) ==
    \/ \E size \in sizes, align \in aligns : ArenaAlloc(size, align)
    \/ ArenaReset
    \/ ArenaCheckpoint
    \/ \E i \in 1 .. MaxSaved : ArenaRestore(i)
    \/ \E i \in 1 .. MaxSaved : ArenaForget(i)
    \/ ScopedArenaNew
    \/ \E i \in 1 .. MaxSaved : ScopedArenaDrop(i)

NextArena == ArenaStep(Sizes, Aligns)

SpecArena == InitArena /\ [][NextArena]_vars

----------------------------------------------------------------------------
(* Properties of the Arena *)

\* The least multiple of align that is >= value, in unbounded integers.
RoundUp(value, align) == ((value + align - 1) \div align) * align

\* C1: in every state any sequence of Arena operations reaches,
\* 0 <= cursor <= capacity.
ArenaCursorInRange ==
    subject = "Arena" => (0 <= arena_offset /\ arena_offset <= arena_capacity)

\* C1's case: the arena is exactly full and has just refused a non-empty request.
ArenaFullReached ==
    /\ subject = "Arena"
    /\ arena_offset = arena_capacity
    /\ arena_last.op = "alloc" /\ ~arena_last.ok /\ arena_last.size = 16

\* C2: alloc(size, align) returns no result exactly when
\* RoundUp(cursor, align) + size > capacity (a sum that leaves the machine word
\* exceeds every capacity); otherwise it returns the offset RoundUp(cursor, align)
\* and the cursor becomes RoundUp(cursor, align) + size. Arena(64) accepts
\* alloc(32, 1) while the cursor is at most 32 and refuses it afterwards.
ArenaAllocExact ==
    (subject = "Arena" /\ arena_last.op = "alloc") =>
        LET aligned == RoundUp(arena_last.pre, arena_last.align)
        IN  /\ ~arena_last.ok <=> (aligned + arena_last.size > arena_capacity)
            /\ arena_last.ok =>
                  /\ arena_last.off = aligned
                  /\ arena_offset = aligned + arena_last.size
            /\ (arena_capacity = 64 /\ arena_last.size = 32 /\ arena_last.align = 1) =>
                  (arena_last.ok <=> arena_last.pre <= 32)

\* C2's case: Arena(64) holds two 32-byte regions and refuses the third alloc(32, 1).
ArenaThirdAllocRefused ==
    /\ subject = "Arena" /\ arena_capacity = 64
    /\ arena_last.op = "alloc" /\ arena_last.size = 32 /\ arena_last.align = 1
    /\ arena_last.pre = 64 /\ ~arena_last.ok
    /\ arena_last.prev = [any |-> TRUE, end |-> 64]

\* C3: a region returned by a successful alloc lies inside the block, and it starts
\* at or after the end of the region returned before it when no reset or restore
\* came between the two.
ArenaRegionsMonotonic ==
    (subject = "Arena" /\ arena_last.op = "alloc" /\ arena_last.ok) =>
        /\ 0 <= arena_last.off
        /\ arena_last.off + arena_last.size <= arena_capacity
        /\ arena_last.prev.any => arena_last.off >= arena_last.prev.end

\* C3's case: a second region in a row, placed after alignment padding.
ArenaSecondRegionPadded ==
    /\ subject = "Arena"
    /\ arena_last.op = "alloc" /\ arena_last.ok /\ arena_last.size > 0
    /\ arena_last.prev.any
    /\ arena_last.off > arena_last.prev.end

\* C4: restore with a checkpoint after which only alloc calls were made succeeds and
\* sets used() to the value it had when the checkpoint was taken.
ArenaRestoreAfterAllocs ==
    (subject = "Arena" /\ arena_last.op = "restore" /\ arena_last.clean) =>
        /\ arena_last.ok
        /\ ArenaUsed = arena_last.used_at

\* C4's case: allocations moved the cursor past a checkpoint taken at 16, and restore
\* brought it back.
ArenaRestoredPastAllocs ==
    /\ subject = "Arena"
    /\ arena_last.op = "restore" /\ arena_last.clean
    /\ arena_last.used_at = 16
    /\ arena_last.pre > arena_last.used_at
    /\ ArenaUsed = 16

----------------------------------------------------------------------------
(* StackAllocator *)

\* std::mem::size_of::<AllocationHeader>(): two usize fields, #[repr(C)]
HeaderSize == 16

\* StackAllocator::used
StackUsed == stack_offset

\* StackAllocator::available
StackAvailable == stack_capacity - StackUsed

\* StackAllocator::new
InitStack ==
    /\ RegistryIdle
    /\ new_last = NewNoCall
    /\ ArenaIdle
    /\ DesIdle
    /\ PoolIdle
    /\ StatsIdle
    /\ SharedIdle
    /\ subject = "StackAllocator"
    /\ debug_build \in BOOLEAN
    /\ stack_capacity \in StackCapacities
    /\ stack_offset = 0
    /\ stack_live = <<>>
    /\ stack_saved = <<>>
    /\ stack_lifo = TRUE
    /\ stack_last = StackNoCall

\* The caller's allocations and marks after the cursor moved to cursor and the
\* allocations at the positions in gone were released: a mark below which the
\* cursor went is stale, and depth counts the live allocations older than the mark.
AfterRelease(saved, gone, cursor) ==
    [k \in DOMAIN saved |->
        [saved[k] EXCEPT !.valid = saved[k].valid /\ saved[k].offset <= cursor,
                         !.depth = Cardinality({j \in 1 .. saved[k].depth : j \notin gone})]]

Keep(live, gone) ==
    SelectSeq([j \in DOMAIN live |-> [e |-> live[j], at |-> j]],
              LAMBDA x : x.at \notin gone)

Without(live, gone) == [j \in DOMAIN Keep(live, gone) |-> Keep(live, gone)[j].e]

\* A call on the stack. What the allocator does once its caller has broken the
\* LIFO discipline (an out-of-order free that went through, a rewind to a stale
\* mark) is outside its contract: a run is followed up to and including the first
\* such call.
StackCalled ==
    /\ subject = "StackAllocator"
    /\ stack_lifo

\* a faulty header: records the aligned offset, not the cursor before the padding
StackHeaderPrev_aligned(current_offset, aligned_offset) == aligned_offset

\* AllocationHeader.prev_offset as StackAllocator::alloc writes it
StackHeaderPrev(current_offset, aligned_offset) == current_offset

\* data_offset = header_offset + header_size
StackDataOffset(header_offset) == (header_offset + HeaderSize) % Word

\* whether StackAllocator::alloc refuses: checked_add overflowed, or
\* new_offset > capacity
StackAllocFails(data_offset, size) ==
    \/ ~checked_add_ok(data_offset, size)
    \/ data_offset + size > stack_capacity

\* header_ptr.write(..) at header_offset: the caller's other allocations whose
\* header sits at the same offset now have these bytes in front of their payload
WriteHeader(live, header_offset, size, prev_offset) ==
    [j \in DOMAIN live |->
        IF live[j].hdr = header_offset
        THEN [live[j] EXCEPT !.h_size = size, !.h_prev = prev_offset]
        ELSE live[j]]

\* StackAllocator::alloc(size, align); ScopedStack::alloc delegates to it
StackAlloc(size, align) ==
    /\ StackCalled
    /\ Len(stack_live) < MaxLive
    /\ LET current_offset == stack_offset
           aligned_offset == align_up(current_offset, align)
           header_offset == aligned_offset
           data_offset == StackDataOffset(header_offset)
           prev_offset == StackHeaderPrev(current_offset, aligned_offset)
       IN  IF StackAllocFails(data_offset, size)
           THEN /\ stack_offset' = stack_offset
                /\ stack_live' = stack_live
                /\ stack_last' = [StackNoCall EXCEPT !.op = "alloc", !.size = size,
                                    !.align = align, !.pre = current_offset,
                                    !.ok = FALSE]
           ELSE /\ stack_offset' = data_offset + size
                /\ stack_live' =
                      Append(WriteHeader(stack_live, header_offset, size, prev_offset),
                             [hdr |-> header_offset, data |-> data_offset,
                              size |-> size, used_before |-> StackUsed,
                              h_size |-> size, h_prev |-> prev_offset])
                /\ stack_last' = [StackNoCall EXCEPT !.op = "alloc", !.size = size,
                                    !.align = align, !.pre = current_offset,
                                    !.ok = TRUE, !.hdr = header_offset,
                                    !.off = data_offset]
    /\ UNCHANGED <<arena_vars, des_vars, pool_vars, stats_vars, shared_vars, registry_vars, new_last, subject, debug_build, stack_capacity, stack_saved,
                   stack_lifo>>

\* the debug_assert! of StackAllocator::free, on the header read from
\* data_offset - header_size: present in debug builds only
StackFreePanics(e, cursor) ==
    debug_build /\ (e.data + e.h_size) % Word # cursor

\* StackAllocator::free(ptr) with a pointer the caller holds
StackFree(i) ==
    /\ StackCalled
    /\ i \in DOMAIN stack_live
    /\ LET e == stack_live[i]
           top == i = Len(stack_live)
           call == [StackNoCall EXCEPT !.op = "free", !.pre = stack_offset,
                      !.hdr = e.hdr, !.off = e.data, !.size = e.size,
                      !.used_at = e.used_before, !.top = top]
       IN  IF StackFreePanics(e, stack_offset)
           THEN /\ stack_last' = [call EXCEPT !.ok = FALSE]
                /\ UNCHANGED <<stack_offset, stack_live, stack_saved, stack_lifo>>
           ELSE /\ stack_offset' = e.h_prev
                /\ stack_live' = Without(stack_live, {i})
                /\ stack_saved' = AfterRelease(stack_saved, {i}, e.h_prev)
                /\ stack_lifo' = (stack_lifo /\ top)
                /\ stack_last' = call
    /\ UNCHANGED <<arena_vars, des_vars, pool_vars, stats_vars, shared_vars, registry_vars, new_last, subject, debug_build, stack_capacity>>

\* the StackMark that StackAllocator::mark builds
StackMarkValue == stack_offset

\* StackAllocator::mark: the caller keeps the returned value
StackMark ==
    /\ StackCalled
    /\ Len(stack_saved) < MaxMarks
    /\ stack_saved' = Append(stack_saved,
                             [offset |-> StackMarkValue, used_at |-> StackUsed,
                              valid |-> TRUE, depth |-> Len(stack_live),
                              scoped |-> FALSE])
    /\ stack_last' = [StackNoCall EXCEPT !.op = "mark", !.pre = stack_offset,
                        !.saved = StackMarkValue]
    /\ UNCHANGED <<arena_vars, des_vars, pool_vars, stats_vars, shared_vars, registry_vars, new_last, subject, debug_build, stack_capacity, stack_offset,
                   stack_live, stack_lifo>>

\* the assert! of StackAllocator::free_to_mark
StackFreeToMarkAccepts(mark_offset) == mark_offset <= stack_offset

\* a faulty free_to_mark: clears the stack
StackFreeToMarkOffset_clear(mark_offset) ==
    IF StackFreeToMarkAccepts(mark_offset) THEN 0 ELSE stack_offset

\* the cursor after free_to_mark(mark): a failed assert! panics before the set
StackFreeToMarkOffset(mark_offset) ==
    IF StackFreeToMarkAccepts(mark_offset) THEN mark_offset ELSE stack_offset

RECURSIVE StackFreeChain(_, _, _)
\* The cursor after calling free, newest first, on the caller's allocations at the
\* positions above depth; ok is FALSE when one of these calls panics.
StackFreeChain(live, cursor, depth) ==
    IF Len(live) <= depth THEN [ok |-> TRUE, off |-> cursor]
    ELSE LET e == live[Len(live)]
         IN  IF StackFreePanics(e, cursor) THEN [ok |-> FALSE, off |-> cursor]
             ELSE StackFreeChain(SubSeq(live, 1, Len(live) - 1), e.h_prev, depth)

\* The allocations a rewind of the cursor to mark_offset releases: the caller
\* stops using those that lie at or above it.
Released(live, mark_offset) == {j \in DOMAIN live : live[j].hdr >= mark_offset}

\* the effect of free_to_mark(stack_saved[i]) on the allocator and on the caller
FreeToMark(i, op) ==
    LET m == stack_saved[i]
        call == [StackNoCall EXCEPT !.op = op, !.pre = stack_offset,
                   !.saved = m.offset, !.used_at = m.used_at, !.valid = m.valid,
                   !.chain = StackFreeChain(stack_live, stack_offset, m.depth)]
        gone == Released(stack_live, m.offset)
    IN  IF StackFreeToMarkAccepts(m.offset)
        THEN /\ stack_offset' = StackFreeToMarkOffset(m.offset)
             /\ stack_live' = Without(stack_live, gone)
             /\ stack_saved' = AfterRelease(stack_saved, gone, m.offset)
             /\ stack_lifo' = (stack_lifo /\ m.valid)
             /\ stack_last' = call
        ELSE /\ stack_offset' = StackFreeToMarkOffset(m.offset)
             /\ stack_last' = [call EXCEPT !.ok = FALSE]
             /\ UNCHANGED <<stack_live, stack_saved, stack_lifo>>

\* StackAllocator::free_to_mark(mark) with a mark the caller holds (StackMark is Copy)
StackFreeToMark(i) ==
    /\ StackCalled
    /\ i \in DOMAIN stack_saved
    /\ ~stack_saved[i].scoped
    /\ FreeToMark(i, "free_to_mark")
    /\ UNCHANGED <<arena_vars, des_vars, pool_vars, stats_vars, shared_vars, registry_vars, new_last, subject, debug_build, stack_capacity>>

\* the caller lets a mark go: a plain Copy value, nothing runs
StackForget(i) ==
    /\ subject = "StackAllocator"
    /\ i \in DOMAIN stack_saved
    /\ ~stack_saved[i].scoped
    /\ stack_saved' = Remove(stack_saved, i)
    /\ UNCHANGED <<arena_vars, des_vars, pool_vars, stats_vars, shared_vars, registry_vars, new_last, subject, debug_build, stack_capacity, stack_offset,
                   stack_live, stack_lifo, stack_last>>

\* the cursor StackAllocator::clear leaves
StackClearOffset == 0

\* StackAllocator::clear: every allocation is released
StackClear ==
    /\ StackCalled
    /\ stack_offset' = StackClearOffset
    /\ stack_live' = <<>>
    /\ stack_saved' = AfterRelease(stack_saved, DOMAIN stack_live, StackClearOffset)
    /\ stack_last' = [StackNoCall EXCEPT !.op = "clear", !.pre = stack_offset]
    /\ UNCHANGED <<arena_vars, des_vars, pool_vars, stats_vars, shared_vars, registry_vars, new_last, subject, debug_build, stack_capacity, stack_lifo>>

\* ScopedStack::new: takes a mark and keeps it in the guard
ScopedStackNew ==
    /\ StackCalled
    /\ Len(stack_saved) < MaxMarks
    /\ stack_saved' = Append(stack_saved,
                             [offset |-> StackMarkValue, used_at |-> StackUsed,
                              valid |-> TRUE, depth |-> Len(stack_live),
                              scoped |-> TRUE])
    /\ stack_last' = [StackNoCall EXCEPT !.op = "scoped_new", !.pre = stack_offset,
                        !.saved = StackMarkValue]
    /\ UNCHANGED <<arena_vars, des_vars, pool_vars, stats_vars, shared_vars, registry_vars, new_last, subject, debug_build, stack_capacity, stack_offset,
                   stack_live, stack_lifo>>

\* Drop for ScopedStack: free_to_mark(self.mark); the guard is gone afterwards,
\* also when free_to_mark panicked. Guards may be dropped in any order.
ScopedStackDrop(i) ==
    /\ StackCalled
    /\ i \in DOMAIN stack_saved
    /\ stack_saved[i].scoped
    /\ LET m == stack_saved[i]
           call == [StackNoCall EXCEPT !.op = "scoped_drop", !.pre = stack_offset,
                      !.saved = m.offset, !.used_at = m.used_at, !.valid = m.valid,
                      !.chain = StackFreeChain(stack_live, stack_offset, m.depth)]
           gone == Released(stack_live, m.offset)
       IN  IF StackFreeToMarkAccepts(m.offset)
           THEN /\ stack_offset' = StackFreeToMarkOffset(m.offset)
                /\ stack_live' = Without(stack_live, gone)
                /\ stack_saved' = Remove(AfterRelease(stack_saved, gone, m.offset), i)
                /\ stack_lifo' = (stack_lifo /\ m.valid)
                /\ stack_last' = call
           ELSE /\ stack_offset' = StackFreeToMarkOffset(m.offset)
                /\ stack_saved' = Remove(stack_saved, i)
                /\ stack_last' = [call EXCEPT !.ok = FALSE]
                /\ UNCHANGED <<stack_live, stack_lifo>>
    /\ UNCHANGED <<arena_vars, des_vars, pool_vars, stats_vars, shared_vars, registry_vars, new_last, subject, debug_build, stack_capacity>>

\* one call on the StackAllocator, the requests drawn from the given sizes and
\* alignments
StackStep(sizes, aligns) ==
    \/ \E size \in sizes, align \in aligns : StackAlloc(size, align)
    \/ \E i \in 1 .. MaxLive : StackFree(i)
    \/ StackMark
    \/ \E i \in 1 .. MaxMarks : StackFreeToMark(i)
    \/ \E i \in 1 .. MaxMarks : StackForget(i)
    \/ StackClear
    \/ ScopedStackNew
    \/ \E i \in 1 .. MaxMarks : ScopedStackDrop(i)

NextStack == StackStep(Sizes, Aligns)

SpecStack == InitStack /\ [][NextStack]_vars

----------------------------------------------------------------------------
(* Properties of the StackAllocator *)

\* C7: freeing the caller's most recent live allocation succeeds and sets used() to
\* the value it had just before that allocation was made, alignment padding
\* included; so n allocations freed newest first leave used() where it started.
StackFreeRestoresUsed ==
    (subject = "StackAllocator" /\ stack_last.op = "free" /\ stack_last.top) =>
        /\ stack_last.ok
        /\ StackUsed = stack_last.used_at

\* C7's case: the newest of several live allocations, made after alignment padding,
\* has been freed.
StackPaddedTopFreed ==
    /\ subject = "StackAllocator"
    /\ stack_last.op = "free" /\ stack_last.top /\ stack_last.ok
    /\ stack_last.used_at < stack_last.hdr
    /\ Len(stack_live) >= 1

\* C8 as stated: an accepted free_to_mark(m) leaves the cursor where freeing one by
\* one, newest first, every live allocation made after m was taken leaves it.
StackFreeToMarkIsFrees ==
    (subject = "StackAllocator" /\ stack_last.op = "free_to_mark" /\ stack_last.ok) =>
        /\ stack_last.chain.ok
        /\ stack_last.chain.off = stack_offset

\* C8, amended: every accepted free_to_mark(m) sets used() to its value at the time
\* of mark(); and when the cursor has not gone below m since m was taken,
\* free_to_mark(m) is accepted and leaves the cursor where freeing one by one,
\* newest first, every live allocation made after m leaves it.
StackFreeToMarkValid ==
    (subject = "StackAllocator" /\ stack_last.op = "free_to_mark") =>
        /\ stack_last.ok => StackUsed = stack_last.used_at
        /\ stack_last.valid =>
              /\ stack_last.ok
              /\ stack_last.chain.ok
              /\ stack_last.chain.off = stack_offset

\* C8's case: two allocations were made after the mark and free_to_mark released
\* both.
StackTwoReleasedToMark ==
    /\ subject = "StackAllocator"
    /\ stack_last.op = "free_to_mark" /\ stack_last.valid /\ stack_last.ok
    /\ stack_last.saved = 16
    /\ stack_last.pre = 64
    /\ Len(stack_live) = 1
    /\ StackUsed = 16

\* C9 as stated: free of an allocation that is not the caller's most recent live
\* one is detected and leaves the cursor where it was.
StackFreeChecksTop ==
    (subject = "StackAllocator" /\ stack_last.op = "free" /\ ~stack_last.top) =>
        /\ ~stack_last.ok
        /\ stack_offset = stack_last.pre

----------------------------------------------------------------------------
(* The two bump allocators: one run drives an Arena or a StackAllocator. *)

InitBump == InitArena \/ InitStack

\* the requests made between the rewinding calls: empty or 16 bytes, unaligned or
\* padded to 32
RewindSizes == {0, 16}

RewindAligns == {1, 32}

NextBump ==
    \/ ArenaStep(RewindSizes, RewindAligns)
    \/ StackStep(RewindSizes, RewindAligns)

SpecBump == InitBump /\ [][NextBump]_vars

\* C5: Arena::restore and StackAllocator::free_to_mark are rejected, leaving the
\* cursor where it was, when the saved value is greater than the cursor, and
\* otherwise set the cursor to exactly the saved value.
RewindOnlyBackward ==
    /\ (subject = "Arena" /\ arena_last.op = "restore") =>
          IF arena_last.saved > arena_last.pre
          THEN ~arena_last.ok /\ arena_offset = arena_last.pre
          ELSE arena_last.ok /\ arena_offset = arena_last.saved
    /\ (subject = "StackAllocator" /\ stack_last.op = "free_to_mark") =>
          IF stack_last.saved > stack_last.pre
          THEN ~stack_last.ok /\ stack_offset = stack_last.pre
          ELSE stack_last.ok /\ stack_offset = stack_last.saved

\* C5's case: a mark taken at 32 was passed to free_to_mark after clear() had put
\* the cursor at 0, and the call was rejected.
StackForwardRewindRejected ==
    /\ subject = "StackAllocator"
    /\ stack_last.op = "free_to_mark" /\ ~stack_last.ok
    /\ stack_last.saved = 32 /\ stack_last.pre = 0
    /\ stack_offset = 0

----------------------------------------------------------------------------

----------------------------------------------------------------------------
(* DoubleEndedStack *)

\* DoubleEndedStack::used and ::available
DesUsed == bottom_offset + (des_capacity - top_offset)

DesAvailable == des_capacity - DesUsed

\* DoubleEndedStack::new
InitDes ==
    /\ RegistryIdle
    /\ new_last = NewNoCall
    /\ ArenaIdle
    /\ StackIdle
    /\ PoolIdle
    /\ StatsIdle
    /\ SharedIdle
    /\ subject = "DoubleEndedStack"
    /\ debug_build = FALSE      \* DoubleEndedStack has no debug_assert!
    /\ des_capacity \in DesCapacities
    /\ bottom_offset = 0
    /\ top_offset = des_capacity
    /\ des_last = DesNoCall

checked_sub_ok(a, b) == b <= a

\* alloc_bottom returns None: checked_add overflowed, or the new bottom cursor
\* would reach the top cursor
DesAllocBottomFails(aligned, size) ==
    \/ ~checked_add_ok(aligned, size)
    \/ aligned + size >= top_offset

\* DoubleEndedStack::alloc_bottom(size, align)
DesAllocBottom(size, align) ==
    /\ subject = "DoubleEndedStack"
    /\ LET current == bottom_offset
           aligned == align_up(current, align)
           fails == DesAllocBottomFails(aligned, size)
       IN  /\ bottom_offset' = IF fails THEN bottom_offset ELSE aligned + size
           /\ des_last' = [op |-> "alloc_bottom", size |-> size, align |-> align,
                           bottom |-> bottom_offset, top |-> top_offset,
                           ok |-> ~fails, off |-> IF fails THEN 0 ELSE aligned]
    /\ UNCHANGED <<arena_vars, stack_vars, pool_vars, stats_vars, shared_vars, registry_vars, new_last, subject, debug_build, des_capacity,
                   top_offset>>

\* new_offset & !(align - 1) in alloc_top
DesAlignedTop(new_offset, align) ==
    BitAnd(new_offset, BitNot((align - 1) % Word), WordBits)

\* a faulty alloc_top: the new top cursor is not compared with the bottom cursor
DesAllocTopFails_unchecked(current, size, align) == ~checked_sub_ok(current, size)

\* alloc_top returns None: checked_sub underflowed, or the new top cursor would
\* reach the bottom cursor
DesAllocTopFails(current, size, align) ==
    \/ ~checked_sub_ok(current, size)
    \/ DesAlignedTop(current - size, align) <= bottom_offset

\* DoubleEndedStack::alloc_top(size, align)
DesAllocTop(size, align) ==
    /\ subject = "DoubleEndedStack"
    /\ LET current == top_offset
           fails == DesAllocTopFails(current, size, align)
           aligned == DesAlignedTop(current - size, align)
       IN  /\ top_offset' = IF fails THEN top_offset ELSE aligned
           /\ des_last' = [op |-> "alloc_top", size |-> size, align |-> align,
                           bottom |-> bottom_offset, top |-> top_offset,
                           ok |-> ~fails, off |-> IF fails THEN 0 ELSE aligned]
    /\ UNCHANGED <<arena_vars, stack_vars, pool_vars, stats_vars, shared_vars, registry_vars, new_last, subject, debug_build, des_capacity,
                   bottom_offset>>

DesCleared(op) == [DesNoCall EXCEPT !.op = op, !.bottom = bottom_offset,
                                    !.top = top_offset]

\* DoubleEndedStack::clear_bottom
DesClearBottom ==
    /\ subject = "DoubleEndedStack"
    /\ bottom_offset' = 0
    /\ des_last' = DesCleared("clear_bottom")
    /\ UNCHANGED <<arena_vars, stack_vars, pool_vars, stats_vars, shared_vars, registry_vars, new_last, subject, debug_build, des_capacity,
                   top_offset>>

\* DoubleEndedStack::clear_top
DesClearTop ==
    /\ subject = "DoubleEndedStack"
    /\ top_offset' = des_capacity
    /\ des_last' = DesCleared("clear_top")
    /\ UNCHANGED <<arena_vars, stack_vars, pool_vars, stats_vars, shared_vars, registry_vars, new_last, subject, debug_build, des_capacity,
                   bottom_offset>>

\* a faulty clear: the top cursor is left where it is
DesClear_bottom_only ==
    /\ subject = "DoubleEndedStack"
    /\ bottom_offset' = 0
    /\ des_last' = DesCleared("clear")
    /\ UNCHANGED <<arena_vars, stack_vars, pool_vars, stats_vars, shared_vars, registry_vars,
                   new_last, subject, debug_build, des_capacity, top_offset>>

\* DoubleEndedStack::clear: clear_bottom, then clear_top
DesClear ==
    /\ subject = "DoubleEndedStack"
    /\ bottom_offset' = 0
    /\ top_offset' = des_capacity
    /\ des_last' = DesCleared("clear")
    /\ UNCHANGED <<arena_vars, stack_vars, pool_vars, stats_vars, shared_vars, registry_vars, new_last, subject, debug_build, des_capacity>>

NextDes ==
    \/ \E size \in DesSizes, align \in DesAligns : DesAllocBottom(size, align)
    \/ \E size \in DesSizes, align \in DesAligns : DesAllocTop(size, align)
    \/ DesClearBottom
    \/ DesClearTop
    \/ DesClear

SpecDes == InitDes /\ [][NextDes]_vars

----------------------------------------------------------------------------
(* Properties of the DoubleEndedStack *)

\* C10: in every state a DoubleEndedStack reaches through alloc_bottom, alloc_top,
\* clear_bottom, clear_top and clear, bottom_offset <= top_offset <= capacity.
DesCursorsOrdered ==
    subject = "DoubleEndedStack" =>
        /\ 0 <= bottom_offset
        /\ bottom_offset <= top_offset
        /\ top_offset <= des_capacity

\* C10's case: both ends hold allocations, the cursors are one byte apart, and an
\* alloc_top that would have made them meet was refused.
DesCursorsAdjacent ==
    /\ subject = "DoubleEndedStack"
    /\ 0 < bottom_offset
    /\ top_offset < des_capacity
    /\ top_offset = bottom_offset + 1
    /\ des_last.op = "alloc_top" /\ ~des_last.ok /\ des_last.size = 1

\* The greatest multiple of align that is <= value, in unbounded integers.
RoundDown(value, align) == (value \div align) * align

\* C11 as stated: alloc_bottom fails exactly when align_up(bottom, align) + size
\* would pass the top cursor, and alloc_top fails exactly when size exceeds the top
\* cursor or align_down(top - size, align) would be below the bottom cursor; a
\* request after which bottom <= top still holds succeeds.
DesAllocFailsExactlyOnCrossing ==
    /\ (subject = "DoubleEndedStack" /\ des_last.op = "alloc_bottom") =>
          (~des_last.ok <=>
              RoundUp(des_last.bottom, des_last.align) + des_last.size > des_last.top)
    /\ (subject = "DoubleEndedStack" /\ des_last.op = "alloc_top") =>
          (~des_last.ok <=>
              \/ des_last.size > des_last.top
              \/ RoundDown(des_last.top - des_last.size, des_last.align)
                     < des_last.bottom)

----------------------------------------------------------------------------
(* Pool *)

\* Pool::new
InitPool ==
    /\ RegistryIdle
    /\ new_last = NewNoCall
    /\ ArenaIdle
    /\ StackIdle
    /\ DesIdle
    /\ StatsIdle
    /\ SharedIdle
    /\ subject = "Pool"
    /\ debug_build = FALSE      \* alloc and free have no debug_assert!
    /\ \E shape \in PoolShapes :
          /\ chunk_size = shape.chunk_size
          /\ chunk_align = shape.chunk_align
          /\ chunks_per_block = shape.chunks_per_block
    /\ blocks = <<>>
    /\ free_list = <<>>
    /\ total_allocated = 0
    /\ total_freed = 0
    /\ pool_live = {}
    /\ pool_sound = TRUE
    /\ pool_last = PoolNoCall
    /\ pool_boxes = {}

\* the calls are followed up to and including the first free of an address the
\* caller does not hold
PoolCalled == subject = "Pool" /\ pool_sound

\* memory.add(i * chunk_size) in allocate_new_block
ChunkPtr(memory, i) == [block |-> memory, off |-> (i * chunk_size) % Word]

\* the chunks allocate_new_block pushes for the block at memory, in push order
BlockChunks(memory) == [k \in 1 .. chunks_per_block |-> ChunkPtr(memory, k - 1)]

\* a faulty allocate_new_block: the last chunk of the block is not pushed
FreeListAfterNewBlock_short(list, memory) ==
    list \o SubSeq(BlockChunks(memory), 1, chunks_per_block - 1)
         \o <<ChunkPtr(memory, 0)>>

\* the free list after allocate_new_block pushed the chunks of the block at memory
FreeListAfterNewBlock(list, memory) == list \o BlockChunks(memory)

\* a faulty alloc: a block is added while the free list still holds a chunk
PoolAllocGrows_eager(list) == Len(list) <= 1

\* Pool::alloc calls allocate_new_block: the first pop found the free list empty
PoolAllocGrows(list) == list = <<>>

\* the chunks the leases in scope hold
BoxPtrs == {b.ptr : b \in pool_boxes}

\* history kept with each lease: others is the change of chunks_in_use made since
\* the lease was created by calls other than the lease's own
BoxesAfter(boxes, delta) == {[b EXCEPT !.others = @ + delta] : b \in boxes}

\* Pool::alloc, called by the caller (op "alloc") or by PoolBox::new through
\* alloc_type (op "box_new")
PoolAllocBy(op) ==
    /\ PoolCalled
    /\ total_allocated < MaxPoolAllocs
    /\ LET grows == PoolAllocGrows(free_list)
           memory == Len(blocks) + 1
           list == IF grows THEN FreeListAfterNewBlock(free_list, memory)
                   ELSE free_list
           ptr == list[Len(list)]
       IN  /\ blocks' = IF grows
                        THEN Append(blocks, [memory |-> memory,
                                             size |-> (chunk_size * chunks_per_block) % Word])
                        ELSE blocks
           /\ free_list' = SubSeq(list, 1, Len(list) - 1)
           /\ total_allocated' = (total_allocated + 1) % Word
           /\ pool_last' = [op |-> op, ptr |-> ptr, held |-> FALSE,
                            fresh |-> ptr \notin (pool_live \cup BoxPtrs),
                            pre_free |-> Len(free_list), pre_blocks |-> Len(blocks),
                            pre_in_use |-> total_allocated - total_freed,
                            lease |-> PoolNoCall.lease]
    /\ UNCHANGED <<arena_vars, stack_vars, des_vars, stats_vars, shared_vars, registry_vars, new_last, subject, debug_build, chunk_size,
                   chunk_align, chunks_per_block, total_freed, pool_sound>>

\* Pool::alloc
PoolAlloc ==
    /\ PoolAllocBy("alloc")
    /\ pool_live' = pool_live \cup {pool_last'.ptr}
    /\ pool_boxes' = BoxesAfter(pool_boxes, 1)

\* a free that checks: an address already on the free list is not pushed again
PoolFreePush_checked(list, ptr) ==
    IF \E k \in DOMAIN list : list[k] = ptr THEN list ELSE Append(list, ptr)

\* self.free_list.borrow_mut().push(ptr) in Pool::free
PoolFreePush(list, ptr) == Append(list, ptr)

\* Pool::free(ptr), called by the caller (op "free") or by the drop of the lease
\* (op "box_drop")
PoolFreeBy(op, ptr, lease) ==
    /\ PoolCalled
    /\ free_list' = PoolFreePush(free_list, ptr)
    /\ total_freed' = (total_freed + 1) % Word
    /\ pool_last' = [op |-> op, ptr |-> ptr,
                     held |-> ptr \in (pool_live \cup BoxPtrs),
                     fresh |-> FALSE,
                     pre_free |-> Len(free_list), pre_blocks |-> Len(blocks),
                     pre_in_use |-> total_allocated - total_freed,
                     lease |-> lease]
    /\ UNCHANGED <<arena_vars, stack_vars, des_vars, stats_vars, shared_vars, registry_vars, new_last, subject, debug_build, chunk_size,
                   chunk_align, chunks_per_block, blocks, total_allocated>>

\* Pool::free(ptr)
PoolFree(ptr) ==
    /\ PoolFreeBy("free", ptr, PoolNoCall.lease)
    /\ pool_live' = pool_live \ {ptr}
    /\ pool_sound' = (pool_sound /\ ptr \in pool_live)
    /\ pool_boxes' = BoxesAfter(pool_boxes, -1)

\* the addresses a caller can pass to free: a chunk it holds, a chunk it has given
\* back, or an address that never came from this pool
PoolFreeArgs == pool_live \cup {free_list[k] : k \in DOMAIN free_list} \cup {Foreign}

NextPool ==
    \/ PoolAlloc
    \/ \E ptr \in PoolFreeArgs : PoolFree(ptr)

SpecPool == InitPool /\ [][NextPool]_vars

----------------------------------------------------------------------------
(* PoolBox: a scoped lease of one chunk *)

\* alloc_type::<T> asserts size_of::<T>() == chunk_size and align_of::<T>() ==
\* chunk_align; the size of a type is a multiple of its alignment, so a T passing
\* both asserts exists only for such a pool
PoolHasType == chunk_size % chunk_align = 0

\* a faulty drop: the base of the chunk's block is released
PoolBoxDropPtr_base(box) == [block |-> box.ptr.block, off |-> 0]

\* the pointer PoolBox::drop passes to free_type: self.ptr
PoolBoxDropPtr(box) == box.ptr

\* PoolBox::new(pool, value)
PoolBoxNew ==
    /\ PoolHasType
    /\ Cardinality(pool_boxes) < MaxBoxes
    /\ PoolAllocBy("box_new")
    /\ pool_boxes' = BoxesAfter(pool_boxes, 1)
                       \cup {[ptr |-> pool_last'.ptr,
                              before |-> total_allocated - total_freed,
                              others |-> 0]}
    /\ UNCHANGED pool_live

\* Drop for PoolBox: the lease box goes out of scope
PoolBoxDrop(box) ==
    /\ box \in pool_boxes
    /\ PoolFreeBy("box_drop", PoolBoxDropPtr(box), box)
    /\ pool_boxes' = BoxesAfter(pool_boxes \ {box}, -1)
    /\ UNCHANGED <<pool_live, pool_sound>>

\* leases are created and dropped among allocs and frees of chunks the caller holds
NextPoolBox ==
    \/ PoolBoxNew
    \/ \E box \in pool_boxes : PoolBoxDrop(box)
    \/ PoolAlloc
    \/ \E ptr \in pool_live : PoolFree(ptr)

SpecPoolBox == InitPool /\ [][NextPoolBox]_vars

----------------------------------------------------------------------------
(* Properties of the Pool *)

\* Pool::stats: total_blocks, total_chunks, chunks_in_use, chunks_free
PoolTotalBlocks == Len(blocks)

\* a faulty stats(): the blocks are counted for the chunks
PoolTotalChunks_blocks == Len(blocks)

PoolTotalChunks == (Len(blocks) * chunks_per_block) % Word

PoolChunksInUse == total_allocated - total_freed

PoolChunksFree == Len(free_list)

\* the number of times address ptr is on the free list
PoolFreeCount(ptr) == Cardinality({k \in DOMAIN free_list : free_list[k] = ptr})

\* every chunk of every owned block
PoolAllChunks ==
    {ChunkPtr(blocks[b].memory, i) : b \in DOMAIN blocks, i \in 0 .. (chunks_per_block - 1)}

\* ceil(k / n)
CeilDiv(k, n) == (k + n - 1) \div n

\* C12: as long as every free released a chunk the caller held, alloc never
\* returns an address the caller already holds, and once the caller holds no chunk
\* chunks_in_use is 0 and the free list holds every chunk of every owned block
\* exactly once.
PoolNoChunkDuplicatedOrLost ==
    (subject = "Pool" /\ pool_sound) =>
        /\ pool_last.op = "alloc" => pool_last.fresh
        /\ pool_live = {} =>
              /\ PoolChunksInUse = 0
              /\ {free_list[k] : k \in DOMAIN free_list} = PoolAllChunks
              /\ Len(free_list) = Cardinality(PoolAllChunks)

\* C12's case: chunks of two blocks were allocated and all of them were freed, in
\* an order other than the reverse of their allocation.
PoolAllFreedOutOfOrder ==
    /\ subject = "Pool" /\ pool_sound
    /\ Len(blocks) = 2 /\ chunks_per_block = 2
    /\ total_allocated = 4
    /\ pool_live = {}
    /\ pool_last.op = "free"
    /\ free_list[Len(free_list)] = ChunkPtr(2, 1)

\* C13: alloc adds a block exactly when it is called with an empty free list, and
\* then exactly one; after k allocations and no free the pool owns
\* ceil(k / chunks_per_block) blocks; a free adds or removes no block.
PoolGrowsOnlyWhenEmpty ==
    subject = "Pool" =>
        /\ pool_last.op = "none" => PoolTotalBlocks = 0
        /\ pool_last.op = "alloc" =>
              PoolTotalBlocks = pool_last.pre_blocks
                                  + (IF pool_last.pre_free = 0 THEN 1 ELSE 0)
        /\ pool_last.op = "free" => PoolTotalBlocks = pool_last.pre_blocks
        /\ total_freed = 0 =>
              PoolTotalBlocks = CeilDiv(total_allocated, chunks_per_block)

\* C13's case: Pool(8, 8, 4) after five allocations and no free owns two blocks.
PoolFifthAllocGrew ==
    /\ subject = "Pool"
    /\ chunk_size = 8 /\ chunk_align = 8 /\ chunks_per_block = 4
    /\ total_allocated = 5 /\ total_freed = 0
    /\ pool_last.op = "alloc" /\ pool_last.pre_blocks = 1
    /\ PoolTotalBlocks = 2

----------------------------------------------------------------------------
(* MemoryStats: every atomic operation of a call is one step of its thread *)

\* MemoryStats::new
InitStats ==
    /\ RegistryIdle
    /\ new_last = NewNoCall
    /\ ArenaIdle
    /\ StackIdle
    /\ DesIdle
    /\ PoolIdle
    /\ SharedIdle
    /\ subject = "MemoryStats"
    /\ debug_build = FALSE      \* manager.rs has no debug_assert!
    /\ total_allocations = 0
    /\ total_deallocations = 0
    /\ total_bytes_allocated = 0
    /\ total_bytes_deallocated = 0
    /\ peak_memory_usage = 0
    /\ current_memory_usage = 0
    /\ stats_thread = [t \in StatsThreads |-> StatsNoCall]
    /\ stats_hist = StatsNoHist

StatsOthers == <<arena_vars, stack_vars, des_vars, pool_vars, shared_vars, registry_vars,
                 new_last, subject,
                 debug_build>>

Max(a, b) == IF a >= b THEN a ELSE b

\* AtomicUsize::fetch_add and ::fetch_sub wrap
fetch_add(value, n) == (value + n) % Word

\* a faulty fetch_sub: saturates at 0
fetch_sub_saturating(value, n) == IF n > value THEN 0 ELSE value - n

fetch_sub(value, n) == (value + Word - n) % Word

\* the first position of a call
StatsEntry(op) ==
    CASE op = "record_allocation" -> "alloc_count"
      [] op = "record_deallocation" -> "dealloc_count"
      [] op = "reset" -> "reset_allocations"

\* thread t calls record_allocation(size), record_deallocation(size) or reset()
StatsCall(t, op, size) ==
    /\ subject = "MemoryStats"
    /\ stats_thread[t].pc = "idle"
    /\ stats_hist.calls < MaxStatsCalls
    /\ stats_thread' = [stats_thread EXCEPT ![t] =
                           [pc |-> StatsEntry(op), op |-> op, size |-> size,
                            current |-> 0, peak |-> 0,
                            pre_peak |-> peak_memory_usage,
                            pre_current |-> current_memory_usage]]
    /\ stats_hist' = [stats_hist EXCEPT
            !.calls = @ + 1,
            !.allocs = @ + (IF op = "record_allocation" THEN 1 ELSE 0),
            !.alloc_bytes = @ + (IF op = "record_allocation" THEN size ELSE 0),
            !.deallocs = @ + (IF op = "record_deallocation" THEN 1 ELSE 0),
            !.dealloc_bytes = @ + (IF op = "record_deallocation" THEN size ELSE 0),
            !.resets = @ + (IF op = "reset" THEN 1 ELSE 0)]
    /\ UNCHANGED <<StatsOthers, total_allocations, total_deallocations,
                   total_bytes_allocated, total_bytes_deallocated, peak_memory_usage,
                   current_memory_usage>>

\* thread t moves to position pc
StatsGoto(t, pc) == stats_thread' = [stats_thread EXCEPT ![t].pc = pc]

\* record_allocation: total_allocations.fetch_add(1)
RecordAllocationCount(t) ==
    /\ subject = "MemoryStats"
    /\ stats_thread[t].pc = "alloc_count"
    /\ total_allocations' = fetch_add(total_allocations, 1)
    /\ StatsGoto(t, "alloc_bytes")
    /\ UNCHANGED <<StatsOthers, total_deallocations, total_bytes_allocated,
                   total_bytes_deallocated, peak_memory_usage, current_memory_usage,
                   stats_hist>>

\* record_allocation: total_bytes_allocated.fetch_add(size)
RecordAllocationBytes(t) ==
    /\ subject = "MemoryStats"
    /\ stats_thread[t].pc = "alloc_bytes"
    /\ total_bytes_allocated' = fetch_add(total_bytes_allocated, stats_thread[t].size)
    /\ StatsGoto(t, "alloc_current")
    /\ UNCHANGED <<StatsOthers, total_allocations, total_deallocations,
                   total_bytes_deallocated, peak_memory_usage, current_memory_usage,
                   stats_hist>>

\* a faulty current: the value fetch_add returns, without the size added
RecordedCurrent_previous(previous, size) == previous

\* the local current of record_allocation: what fetch_add returned, plus size
RecordedCurrent(previous, size) == (previous + size) % Word

\* record_allocation: current = current_memory_usage.fetch_add(size) + size
RecordAllocationCurrent(t) ==
    /\ subject = "MemoryStats"
    /\ stats_thread[t].pc = "alloc_current"
    /\ LET current == RecordedCurrent(current_memory_usage, stats_thread[t].size)
       IN  /\ current_memory_usage' = fetch_add(current_memory_usage, stats_thread[t].size)
           /\ stats_thread' = [stats_thread EXCEPT ![t].pc = "alloc_load",
                                                    ![t].current = current]
           /\ stats_hist' = [stats_hist EXCEPT
                  !.high = Max(@, fetch_add(current_memory_usage, stats_thread[t].size))]
    /\ UNCHANGED <<StatsOthers, total_allocations, total_deallocations,
                   total_bytes_allocated, total_bytes_deallocated, peak_memory_usage>>

\* record_allocation: peak = peak_memory_usage.load()
RecordAllocationLoad(t) ==
    /\ subject = "MemoryStats"
    /\ stats_thread[t].pc = "alloc_load"
    /\ stats_thread' = [stats_thread EXCEPT ![t].pc = "alloc_loop",
                                             ![t].peak = peak_memory_usage]
    /\ UNCHANGED <<StatsOthers, total_allocations, total_deallocations,
                   total_bytes_allocated, total_bytes_deallocated, peak_memory_usage,
                   current_memory_usage, stats_hist>>

\* a faulty loop test: the peak is replaced whenever it differs from current
PeakNeedsUpdate_any(current, peak) == current # peak

\* while current > peak
PeakNeedsUpdate(current, peak) == current > peak

\* record_allocation: one turn of the loop. The loop ends when current is not
\* above the peak the thread last saw; otherwise compare_exchange_weak stores
\* current if the peak is still that value, or fails (also spuriously) and hands
\* back the value it found.
RecordAllocationLoop(t) ==
    /\ subject = "MemoryStats"
    /\ stats_thread[t].pc = "alloc_loop"
    /\ LET current == stats_thread[t].current
           peak == stats_thread[t].peak
       IN  IF ~PeakNeedsUpdate(current, peak)
           THEN /\ StatsGoto(t, "idle")
                /\ UNCHANGED peak_memory_usage
           ELSE \/ /\ peak_memory_usage = peak
                   /\ peak_memory_usage' = current
                   /\ StatsGoto(t, "idle")
                \/ /\ stats_thread' = [stats_thread EXCEPT ![t].peak = peak_memory_usage]
                   /\ UNCHANGED peak_memory_usage
    /\ UNCHANGED <<StatsOthers, total_allocations, total_deallocations,
                   total_bytes_allocated, total_bytes_deallocated,
                   current_memory_usage, stats_hist>>

\* record_deallocation: total_deallocations.fetch_add(1)
RecordDeallocationCount(t) ==
    /\ subject = "MemoryStats"
    /\ stats_thread[t].pc = "dealloc_count"
    /\ total_deallocations' = fetch_add(total_deallocations, 1)
    /\ StatsGoto(t, "dealloc_bytes")
    /\ UNCHANGED <<StatsOthers, total_allocations, total_bytes_allocated,
                   total_bytes_deallocated, peak_memory_usage, current_memory_usage,
                   stats_hist>>

\* record_deallocation: total_bytes_deallocated.fetch_add(size)
RecordDeallocationBytes(t) ==
    /\ subject = "MemoryStats"
    /\ stats_thread[t].pc = "dealloc_bytes"
    /\ total_bytes_deallocated' = fetch_add(total_bytes_deallocated, stats_thread[t].size)
    /\ StatsGoto(t, "dealloc_current")
    /\ UNCHANGED <<StatsOthers, total_allocations, total_deallocations,
                   total_bytes_allocated, peak_memory_usage, current_memory_usage,
                   stats_hist>>

\* record_deallocation: current_memory_usage.fetch_sub(size)
RecordDeallocationCurrent(t) ==
    /\ subject = "MemoryStats"
    /\ stats_thread[t].pc = "dealloc_current"
    /\ current_memory_usage' = fetch_sub(current_memory_usage, stats_thread[t].size)
    /\ StatsGoto(t, "idle")
    /\ stats_hist' = [stats_hist EXCEPT
            !.fit = @ /\ stats_thread[t].size <= current_memory_usage,
            !.high = Max(@, fetch_sub(current_memory_usage, stats_thread[t].size))]
    /\ UNCHANGED <<StatsOthers, total_allocations, total_deallocations,
                   total_bytes_allocated, total_bytes_deallocated, peak_memory_usage>>

\* reset: the six stores of 0, one step each, in the order of the code
StatsResetStore(t) ==
    /\ subject = "MemoryStats"
    /\ LET pc == stats_thread[t].pc
           at(here, old) == IF pc = here THEN 0 ELSE old
       IN  /\ pc \in {"reset_allocations", "reset_deallocations", "reset_bytes_allocated",
                       "reset_bytes_deallocated", "reset_peak", "reset_current"}
           /\ total_allocations' = at("reset_allocations", total_allocations)
           /\ total_deallocations' = at("reset_deallocations", total_deallocations)
           /\ total_bytes_allocated' = at("reset_bytes_allocated", total_bytes_allocated)
           /\ total_bytes_deallocated' =
                  at("reset_bytes_deallocated", total_bytes_deallocated)
           /\ peak_memory_usage' = at("reset_peak", peak_memory_usage)
           /\ current_memory_usage' = at("reset_current", current_memory_usage)
           /\ StatsGoto(t, CASE pc = "reset_allocations" -> "reset_deallocations"
                             [] pc = "reset_deallocations" -> "reset_bytes_allocated"
                             [] pc = "reset_bytes_allocated" -> "reset_bytes_deallocated"
                             [] pc = "reset_bytes_deallocated" -> "reset_peak"
                             [] pc = "reset_peak" -> "reset_current"
                             [] pc = "reset_current" -> "idle")
    /\ UNCHANGED <<StatsOthers, stats_hist>>

\* one step of one of the given threads
StatsStep(threads) ==
    \E t \in threads :
        \/ \E size \in StatsSizes : StatsCall(t, "record_allocation", size)
        \/ \E size \in StatsSizes : StatsCall(t, "record_deallocation", size)
        \/ StatsCall(t, "reset", 0)
        \/ RecordAllocationCount(t)
        \/ RecordAllocationBytes(t)
        \/ RecordAllocationCurrent(t)
        \/ RecordAllocationLoad(t)
        \/ RecordAllocationLoop(t)
        \/ RecordDeallocationCount(t)
        \/ RecordDeallocationBytes(t)
        \/ RecordDeallocationCurrent(t)
        \/ StatsResetStore(t)

\* the threads call a shared MemoryStats concurrently
NextStats == StatsStep(StatsThreads)

SpecStats == InitStats /\ [][NextStats]_vars

\* one thread makes every call
NextStatsSeq == StatsStep({1})

SpecStatsSeq == InitStats /\ [][NextStatsSeq]_vars

----------------------------------------------------------------------------
(* Properties of MemoryStats *)

\* no thread is inside a MemoryStats call
StatsQuiet == \A t \in StatsThreads : stats_thread[t].pc = "idle"

\* C14 as stated: at every observation, also between the steps of calls running
\* on other threads, peak_memory_usage() >= current_memory_usage() (here for
\* callers that never reset and never deallocate more than the current usage).
StatsPeakAtLeastCurrent ==
    (subject = "MemoryStats" /\ stats_hist.resets = 0 /\ stats_hist.fit) =>
        peak_memory_usage >= current_memory_usage

\* C15 as stated: peak_memory_usage() never decreases between two observations,
\* under any sequence and interleaving of record_allocation,
\* record_deallocation and reset.
StatsPeakNeverDecreases ==
    [][subject = "MemoryStats" => peak_memory_usage' >= peak_memory_usage]_vars

\* C15, amended: peak_memory_usage() never decreases between two observations
\* except by the store of reset(), which sets it to 0.
StatsPeakDecreasesOnlyByReset ==
    [][(subject = "MemoryStats" /\ peak_memory_usage' < peak_memory_usage) =>
          /\ peak_memory_usage' = 0
          /\ \E t \in StatsThreads : /\ stats_thread[t].pc = "reset_peak"
                                     /\ stats_thread'[t].pc = "reset_current"]_vars

\* C15's case: two allocations raised the peak to 3, a deallocation made on the
\* other thread lowered the usage to 2, and the peak stayed at 3.
StatsPeakKeptAfterDealloc ==
    /\ subject = "MemoryStats" /\ StatsQuiet
    /\ stats_hist.resets = 0
    /\ stats_hist.allocs = 2 /\ stats_hist.deallocs = 1
    /\ peak_memory_usage = 3
    /\ current_memory_usage = 2
    /\ stats_thread[1].op = "record_allocation"
    /\ stats_thread[2].op = "record_deallocation"

\* C16: once every call has returned (and no reset was made), total_allocations
\* and total_deallocations are the numbers of calls made, total_bytes_allocated
\* and total_bytes_deallocated the sums of the sizes passed, and
\* current_memory_usage is total_bytes_allocated - total_bytes_deallocated (in
\* usize arithmetic, which wraps when more was deallocated than allocated).
StatsNoUpdateLost ==
    (subject = "MemoryStats" /\ StatsQuiet /\ stats_hist.resets = 0) =>
        /\ total_allocations = stats_hist.allocs
        /\ total_deallocations = stats_hist.deallocs
        /\ total_bytes_allocated = stats_hist.alloc_bytes
        /\ total_bytes_deallocated = stats_hist.dealloc_bytes
        /\ current_memory_usage =
              (total_bytes_allocated + Word - total_bytes_deallocated) % Word
        /\ total_bytes_deallocated <= total_bytes_allocated =>
              current_memory_usage = total_bytes_allocated - total_bytes_deallocated

\* C16's case: two record_allocation calls that both began at usage 0 ran
\* interleaved on two threads and have returned.
StatsOverlappingCallsReturned ==
    /\ subject = "MemoryStats" /\ StatsQuiet
    /\ stats_hist.resets = 0 /\ stats_hist.calls = 2
    /\ stats_thread[1].op = "record_allocation" /\ stats_thread[1].size = 2
    /\ stats_thread[2].op = "record_allocation" /\ stats_thread[2].size = 1
    /\ stats_thread[1].pre_current = 0 /\ stats_thread[1].current = 2
    /\ stats_thread[2].pre_current = 0 /\ stats_thread[2].current = 3
    /\ current_memory_usage = 3

\* C17: in a sequential history on a fresh MemoryStats (no reset) in which no
\* deallocation takes more than the current usage, peak_memory_usage() is, after
\* every call, the greatest value current_memory_usage has held; and a
\* deallocation lowers the current usage by its size and leaves the peak unchanged.
StatsPeakIsMaxOfCurrent ==
    (subject = "MemoryStats" /\ StatsQuiet /\ stats_hist.resets = 0 /\ stats_hist.fit) =>
        /\ peak_memory_usage = stats_hist.high
        /\ stats_thread[1].op = "record_deallocation" =>
              /\ peak_memory_usage = stats_thread[1].pre_peak
              /\ current_memory_usage
                    = stats_thread[1].pre_current - stats_thread[1].size

\* C17's case (test_peak_memory, scaled): allocations of 2 and 1, then a
\* deallocation of 2: the usage is 1 and the peak still 3.
StatsPeakAfterDealloc ==
    /\ subject = "MemoryStats" /\ StatsQuiet
    /\ stats_hist.resets = 0 /\ stats_hist.fit
    /\ stats_hist.allocs = 2 /\ stats_hist.alloc_bytes = 3
    /\ stats_thread[1].op = "record_deallocation" /\ stats_thread[1].size = 2
    /\ stats_thread[1].pre_peak = 3
    /\ current_memory_usage = 1
    /\ peak_memory_usage = 3

----------------------------------------------------------------------------
(* An Arena shared by several threads (unsafe impl Sync for Arena): the offset is
   a Cell, so the get and the set of Arena::alloc are separate steps of a thread. *)

\* Arena::new, the arena then handed to the threads
InitShared ==
    /\ RegistryIdle
    /\ new_last = NewNoCall
    /\ StackIdle
    /\ DesIdle
    /\ PoolIdle
    /\ StatsIdle
    /\ subject = "SharedArena"
    /\ debug_build = FALSE
    /\ arena_capacity \in ArenaCapacities
    /\ arena_offset = 0
    /\ arena_saved = <<>>
    /\ arena_run = NoRun
    /\ arena_last = NoCall
    /\ shared_thread = [t \in SharedThreads |-> SharedNoCall]
    /\ shared_granted = <<>>

SharedOthers == <<stack_vars, des_vars, pool_vars, stats_vars, registry_vars, new_last,
                  subject, debug_build,
                  arena_capacity, arena_saved, arena_run, arena_last>>

\* thread t calls alloc(size, align)
SharedAllocCall(t, size, align) ==
    /\ subject = "SharedArena"
    /\ shared_thread[t].pc = "idle"
    /\ Len(shared_granted) < MaxSharedAllocs
    /\ shared_thread' = [shared_thread EXCEPT ![t] =
            [pc |-> "get", size |-> size, align |-> align, current_offset |-> 0]]
    /\ UNCHANGED <<SharedOthers, arena_offset, shared_granted>>

\* let current_offset = self.offset.get()
SharedAllocGet(t) ==
    /\ subject = "SharedArena"
    /\ shared_thread[t].pc = "get"
    /\ shared_thread' = [shared_thread EXCEPT ![t].pc = "set",
                                               ![t].current_offset = arena_offset]
    /\ UNCHANGED <<SharedOthers, arena_offset, shared_granted>>

\* the rest of alloc: align, test for exhaustion, self.offset.set(new_offset),
\* return the region
SharedAllocSet(t) ==
    /\ subject = "SharedArena"
    /\ shared_thread[t].pc = "set"
    /\ LET size == shared_thread[t].size
           aligned_offset == align_up(shared_thread[t].current_offset,
                                      shared_thread[t].align)
           fails == ArenaAllocFails(aligned_offset, size)
           new_offset == ArenaNewOffset(aligned_offset, size)
       IN  /\ arena_offset' = IF fails THEN arena_offset ELSE new_offset
           /\ shared_granted' =
                  IF fails THEN shared_granted
                  ELSE Append(shared_granted,
                              [thread |-> t, start |-> aligned_offset, end |-> new_offset])
    /\ shared_thread' = [shared_thread EXCEPT ![t].pc = "idle"]
    /\ UNCHANGED SharedOthers

NextShared ==
    \E t \in SharedThreads :
        \/ \E size \in SharedSizes, align \in SharedAligns : SharedAllocCall(t, size, align)
        \/ SharedAllocGet(t)
        \/ SharedAllocSet(t)

SpecShared == InitShared /\ [][NextShared]_vars

\* C18 as stated: the regions granted to the threads are pairwise non-overlapping,
\* and once every call has returned the cursor is at or past the end of every
\* granted region.
SharedAllocsDisjoint ==
    subject = "SharedArena" =>
        /\ \A i, j \in DOMAIN shared_granted :
              i < j => \/ shared_granted[i].end <= shared_granted[j].start
                       \/ shared_granted[j].end <= shared_granted[i].start
        /\ (\A t \in SharedThreads : shared_thread[t].pc = "idle") =>
              \A i \in DOMAIN shared_granted : shared_granted[i].end <= arena_offset

----------------------------------------------------------------------------
(* Requests refused for exhaustion, on each of the three cursor allocators *)

InitExhaust == InitArena \/ InitStack \/ InitDes

NextExhaust ==
    \/ \E size \in Sizes, align \in Aligns : ArenaAlloc(size, align)
    \/ ArenaReset
    \/ \E size \in Sizes, align \in Aligns : StackAlloc(size, align)
    \/ StackClear
    \/ NextDes

SpecExhaust == InitExhaust /\ [][NextExhaust]_vars

\* the last call was an allocation request that was refused
ArenaRefused == subject = "Arena" /\ arena_last.op = "alloc" /\ ~arena_last.ok

StackRefused == subject = "StackAllocator" /\ stack_last.op = "alloc" /\ ~stack_last.ok

DesRefused ==
    /\ subject = "DoubleEndedStack"
    /\ des_last.op \in {"alloc_bottom", "alloc_top"}
    /\ ~des_last.ok

----------------------------------------------------------------------------
(* Arena::reset against a freshly constructed Arena *)

\* C20: reset() leaves used() == 0 and available() == capacity, the cursor of a
\* freshly constructed arena of the same capacity; and the answer of every alloc
\* (refused or not, the offset returned, the cursor afterwards) depends on the
\* capacity, the cursor and the request only, so that after reset() every
\* sequence of alloc calls is answered as a fresh arena answers it.
ArenaResetIsFresh ==
    /\ []((subject = "Arena" /\ arena_last.op = "reset") =>
             /\ arena_offset = 0
             /\ ArenaUsed = 0
             /\ ArenaAvailable = arena_capacity)
    /\ []((subject = "Arena" /\ arena_last.op = "none") =>
             /\ ArenaUsed = 0
             /\ ArenaAvailable = arena_capacity)
    /\ [][(subject = "Arena" /\ arena_last' # arena_last /\ arena_last'.op = "alloc") =>
            LET aligned == RoundUp(arena_offset, arena_last'.align)
                fits == aligned + arena_last'.size <= arena_capacity
            IN  /\ arena_last'.ok <=> fits
                /\ arena_last'.off = IF fits THEN aligned ELSE 0
                /\ arena_offset' = IF fits THEN aligned + arena_last'.size
                                   ELSE arena_offset]_vars

\* C20's case: a full Arena(64) on which a checkpoint is still held was reset.
ArenaFullThenReset ==
    /\ subject = "Arena" /\ arena_capacity = 64
    /\ arena_last.op = "reset" /\ arena_last.pre = 64
    /\ Len(arena_saved) = 1 /\ arena_saved[1].offset = 32
    /\ ArenaUsed = 0

----------------------------------------------------------------------------
(* MemoryManager *)

\* The names allocators are registered under, and the snapshots registered: the
\* total_capacity, used and available fields of an AllocatorInfo (report reads no
\* other field). Two of the capacities together exceed the machine word.
ManagerNames == {"arena_main", "pool_entities", "stack_frame"}

ManagerInfos ==
    {[total_capacity |-> Word \div 4, used |-> 24, available |-> (Word \div 4) - 24],
     [total_capacity |-> Word \div 2, used |-> Word \div 2, available |-> 0],
     [total_capacity |-> 3 * (Word \div 4), used |-> 0,
      available |-> 3 * (Word \div 4)]}

\* MemoryManager::new
InitManager ==
    /\ ArenaIdle
    /\ StackIdle
    /\ DesIdle
    /\ PoolIdle
    /\ StatsIdle
    /\ SharedIdle
    /\ RegistryIdle
    /\ new_last = NewNoCall
    /\ subject = "MemoryManager"
    /\ debug_build \in BOOLEAN      \* overflow checks of += are on in debug builds

ManagerOthers == <<arena_vars, stack_vars, des_vars, pool_vars, shared_vars, profiler_vars,
                   new_last, subject, debug_build, stats_thread, stats_hist>>

\* a faulty HashMap::insert: an entry already stored under the name is kept
ManagerInsert_keeping(map, name, info) == map \cup {[name |-> name, info |-> info]}

\* HashMap::insert(name, info): the entry stored under name, if any, is replaced
ManagerInsert(map, name, info) ==
    {e \in map : e.name # name} \cup {[name |-> name, info |-> info]}

\* MemoryManager::register_allocator(name, info)
ManagerRegister(name, info) ==
    /\ subject = "MemoryManager"
    /\ allocators' = ManagerInsert(allocators, name, info)
    /\ manager_last' = [ManagerNoCall EXCEPT
                            !.op = "register_allocator", !.name = name, !.info = info,
                            !.replaced = \/ manager_last.replaced
                                         \/ \E e \in allocators : e.name = name]
    /\ UNCHANGED <<ManagerOthers, total_allocations, total_deallocations,
                   total_bytes_allocated, total_bytes_deallocated, peak_memory_usage,
                   current_memory_usage>>

\* the loop of report over allocators.values(): total += info.field for every stored
\* entry, starting from total; overflowed says that an addition left the machine word
RECURSIVE ManagerTotal(_, _, _)
ManagerTotal(entries, field, total) ==
    IF entries = {}
    THEN total
    ELSE LET e == CHOOSE x \in entries : TRUE
             sum == total.value + e.info[field]
         IN  ManagerTotal(entries \ {e}, field,
                          [value |-> sum % Word,
                           overflowed |-> total.overflowed \/ sum > UsizeMax])

\* MemoryManager::report
ManagerReport ==
    /\ subject = "MemoryManager"
    /\ LET zero == [value |-> 0, overflowed |-> FALSE]
           capacity == ManagerTotal(allocators, "total_capacity", zero)
           used == ManagerTotal(allocators, "used", zero)
           free == ManagerTotal(allocators, "available", zero)
           panics == /\ debug_build
                     /\ \/ capacity.overflowed
                        \/ used.overflowed
                        \/ free.overflowed
       IN  manager_last' =
               IF panics
               THEN [ManagerNoCall EXCEPT !.op = "report", !.ok = FALSE,
                                          !.replaced = manager_last.replaced]
               ELSE [ManagerNoCall EXCEPT
                        !.op = "report",
                        !.total_allocated = capacity.value,
                        !.total_used = used.value,
                        !.total_free = free.value,
                        !.allocator_count = Cardinality(allocators),
                        !.replaced = manager_last.replaced]
    /\ UNCHANGED <<ManagerOthers, allocators, total_allocations, total_deallocations,
                   total_bytes_allocated, total_bytes_deallocated, peak_memory_usage,
                   current_memory_usage>>

\* MemoryManager::reset_stats: stats.reset() and allocators.clear()
ManagerResetStats ==
    /\ subject = "MemoryManager"
    /\ total_allocations' = 0
    /\ total_deallocations' = 0
    /\ total_bytes_allocated' = 0
    /\ total_bytes_deallocated' = 0
    /\ peak_memory_usage' = 0
    /\ current_memory_usage' = 0
    /\ allocators' = {}
    /\ manager_last' = [ManagerNoCall EXCEPT !.op = "reset_stats"]
    /\ UNCHANGED ManagerOthers

\* global_stats().record_allocation(size), made by the one thread that owns the
\* manager
ManagerRecordAllocation(size) ==
    /\ subject = "MemoryManager"
    /\ total_allocations < MaxManagerRecords
    /\ total_allocations' = fetch_add(total_allocations, 1)
    /\ total_bytes_allocated' = fetch_add(total_bytes_allocated, size)
    /\ current_memory_usage' = fetch_add(current_memory_usage, size)
    /\ peak_memory_usage' = Max(peak_memory_usage, fetch_add(current_memory_usage, size))
    /\ manager_last' = [ManagerNoCall EXCEPT !.op = "record_allocation",
                                             !.replaced = manager_last.replaced]
    /\ UNCHANGED <<ManagerOthers, allocators, total_deallocations,
                   total_bytes_deallocated>>

NextManager ==
    \/ \E name \in ManagerNames, info \in ManagerInfos : ManagerRegister(name, info)
    \/ ManagerReport
    \/ ManagerResetStats
    \/ \E size \in StatsSizes : ManagerRecordAllocation(size)

SpecManager == InitManager /\ [][NextManager]_vars

----------------------------------------------------------------------------
(* Properties of the MemoryManager *)

\* the sum of field over the stored snapshots, as a number
RECURSIVE SumOfField(_, _)
SumOfField(entries, field) ==
    IF entries = {}
    THEN 0
    ELSE LET e == CHOOSE x \in entries : TRUE
         IN  e.info[field] + SumOfField(entries \ {e}, field)

\* the distinct stored names
ManagerStoredNames == {e.name : e \in allocators}

\* C22: report() returns total_allocated, total_used and total_free equal to the sums
\* of total_capacity, used and available over the stored snapshots, one per
\* distinct name, and allocator_count equal to the number of distinct stored names.
ManagerReportIsSum ==
    (subject = "MemoryManager" /\ manager_last.op = "report") =>
        /\ manager_last.ok
        /\ manager_last.total_allocated = SumOfField(allocators, "total_capacity")
        /\ manager_last.total_used = SumOfField(allocators, "used")
        /\ manager_last.total_free = SumOfField(allocators, "available")
        /\ manager_last.allocator_count = Cardinality(ManagerStoredNames)
        /\ Cardinality(allocators) = Cardinality(ManagerStoredNames)

\* some sum of report() exceeds the machine word
ManagerSumOverflows ==
    \/ SumOfField(allocators, "total_capacity") > UsizeMax
    \/ SumOfField(allocators, "used") > UsizeMax
    \/ SumOfField(allocators, "available") > UsizeMax

\* C22 (amended): the manager stores one snapshot per distinct name, the latest
\* registered under it, and none after reset_stats. report() panics in a debug
\* build when one of the sums of total_capacity, used and available over the
\* stored snapshots exceeds the machine word; otherwise it returns these sums
\* modulo 2^WordBits, hence the sums themselves when they fit, and allocator_count
\* equal to the number of distinct stored names.
ManagerReportIsWrappedSum ==
    subject = "MemoryManager" =>
        /\ Cardinality(allocators) = Cardinality(ManagerStoredNames)
        /\ manager_last.op = "register_allocator" =>
              [name |-> manager_last.name, info |-> manager_last.info] \in allocators
        /\ manager_last.op = "reset_stats" => allocators = {}
        /\ manager_last.op = "report" =>
              /\ manager_last.ok <=> ~(debug_build /\ ManagerSumOverflows)
              /\ manager_last.ok =>
                    /\ manager_last.total_allocated
                           = SumOfField(allocators, "total_capacity") % Word
                    /\ manager_last.total_used = SumOfField(allocators, "used") % Word
                    /\ manager_last.total_free
                           = SumOfField(allocators, "available") % Word
                    /\ manager_last.allocator_count = Cardinality(ManagerStoredNames)

\* C22's case: a report made after a name was registered a second time, with two
\* names stored, whose sums fit the machine word.
ManagerReportAfterReplace ==
    /\ subject = "MemoryManager"
    /\ manager_last.op = "report"
    /\ manager_last.ok
    /\ manager_last.replaced
    /\ manager_last.allocator_count = 2
    /\ manager_last.total_allocated = 3 * (Word \div 4)
    /\ manager_last.total_used = 24 + (Word \div 2)
    /\ ~ManagerSumOverflows

----------------------------------------------------------------------------
(* MemoryProfiler *)

\* the sampling intervals profilers are constructed with, in ticks
ProfilerIntervals == {0, 2, 3}

\* MemoryProfiler::new(sample_interval), sampling a fresh MemoryStats
InitProfiler ==
    /\ ArenaIdle
    /\ StackIdle
    /\ DesIdle
    /\ PoolIdle
    /\ StatsIdle
    /\ SharedIdle
    /\ ManagerIdle
    /\ new_last = NewNoCall
    /\ subject = "MemoryProfiler"
    /\ debug_build = FALSE      \* manager.rs has no debug_assert!
    /\ samples = <<>>
    /\ sample_interval \in ProfilerIntervals
    /\ last_sample = NoInstant
    /\ clock = 0
    /\ profiler_last = ProfilerNoCall

ProfilerOthers == <<arena_vars, stack_vars, des_vars, pool_vars, shared_vars, manager_vars,
                    new_last, subject, debug_build, sample_interval, stats_thread,
                    stats_hist>>

ProfilerStats == <<total_allocations, total_deallocations, total_bytes_allocated,
                   total_bytes_deallocated, peak_memory_usage, current_memory_usage>>

\* time passes: Instant::now() is monotonic
ClockTick ==
    /\ subject = "MemoryProfiler"
    /\ clock < MaxClock
    /\ clock' = clock + 1
    /\ UNCHANGED <<ProfilerOthers, ProfilerStats, samples, last_sample, profiler_last>>

\* a faulty test: a call exactly sample_interval after the last sample is throttled
ProfilerThrottled_inclusive(now, last, interval) == last.some /\ now - last.at <= interval

\* sample returns early: last_sample is Some(last) and
\* now.duration_since(last) < sample_interval
ProfilerThrottled(now, last, interval) == last.some /\ now - last.at < interval

\* the MemorySample pushed at now
ProfilerSampleAt(now) ==
    [timestamp |-> now,
     current_usage |-> current_memory_usage,
     peak_usage |-> peak_memory_usage,
     total_allocated |-> total_bytes_allocated,
     total_deallocated |-> total_bytes_deallocated,
     active_allocations |-> (total_allocations - total_deallocations) % Word]

\* MemoryProfiler::sample(stats)
ProfilerSample ==
    /\ subject = "MemoryProfiler"
    /\ Len(samples) < MaxSamples
    /\ LET now == clock
           throttled == ProfilerThrottled(now, last_sample, sample_interval)
       IN  /\ samples' = IF throttled THEN samples
                         ELSE Append(samples, ProfilerSampleAt(now))
           /\ last_sample' = IF throttled THEN last_sample
                             ELSE [some |-> TRUE, at |-> now]
           /\ profiler_last' = [op |-> "sample", now |-> now, recorded |-> ~throttled,
                                pre_samples |-> samples, pre_last |-> last_sample]
    /\ UNCHANGED <<ProfilerOthers, ProfilerStats, clock>>

\* MemoryProfiler::clear
ProfilerClear ==
    /\ subject = "MemoryProfiler"
    /\ samples' = <<>>
    /\ last_sample' = NoInstant
    /\ profiler_last' = [op |-> "clear", now |-> clock, recorded |-> FALSE,
                         pre_samples |-> samples, pre_last |-> last_sample]
    /\ UNCHANGED <<ProfilerOthers, ProfilerStats, clock>>

\* stats.record_allocation(size) on the sampled MemoryStats, by the sampling thread
ProfiledAllocation(size) ==
    /\ subject = "MemoryProfiler"
    /\ total_allocations < MaxManagerRecords
    /\ total_allocations' = fetch_add(total_allocations, 1)
    /\ total_bytes_allocated' = fetch_add(total_bytes_allocated, size)
    /\ current_memory_usage' = fetch_add(current_memory_usage, size)
    /\ peak_memory_usage' = Max(peak_memory_usage, fetch_add(current_memory_usage, size))
    /\ UNCHANGED <<ProfilerOthers, total_deallocations, total_bytes_deallocated, samples,
                   last_sample, clock, profiler_last>>

NextProfiler ==
    \/ ClockTick
    \/ ProfilerSample
    \/ ProfilerClear
    \/ \E size \in StatsSizes : ProfiledAllocation(size)

SpecProfiler == InitProfiler /\ [][NextProfiler]_vars

----------------------------------------------------------------------------
(* Properties of the MemoryProfiler *)

\* C23: a sample call made when no sample was recorded since construction or
\* clear() records a sample; a later call records one exactly when at least
\* sample_interval has passed since the last recorded sample; a call that records
\* appends one sample stamped now and makes now the last-sample time, a throttled
\* call changes neither the samples nor the last-sample time; any two consecutive
\* recorded samples are at least sample_interval apart.
ProfilerSampleThrottled ==
    subject = "MemoryProfiler" =>
        /\ profiler_last.op = "sample" =>
              /\ ~profiler_last.pre_last.some => profiler_last.recorded
              /\ profiler_last.pre_last.some =>
                    (profiler_last.recorded <=>
                        profiler_last.now - profiler_last.pre_last.at >= sample_interval)
              /\ profiler_last.recorded =>
                    /\ Len(samples) = Len(profiler_last.pre_samples) + 1
                    /\ SubSeq(samples, 1, Len(samples) - 1) = profiler_last.pre_samples
                    /\ samples[Len(samples)].timestamp = profiler_last.now
                    /\ last_sample = [some |-> TRUE, at |-> profiler_last.now]
              /\ ~profiler_last.recorded =>
                    /\ samples = profiler_last.pre_samples
                    /\ last_sample = profiler_last.pre_last
        /\ profiler_last.op = "clear" => (samples = <<>> /\ ~last_sample.some)
        /\ \A i \in 1 .. (Len(samples) - 1) :
              samples[i + 1].timestamp - samples[i].timestamp >= sample_interval

\* C23's case: with an interval of 2 ticks, a second sample was recorded exactly 2
\* ticks after the first.
ProfilerSecondSampleAtInterval ==
    /\ subject = "MemoryProfiler"
    /\ sample_interval = 2
    /\ profiler_last.op = "sample"
    /\ profiler_last.recorded
    /\ Len(samples) = 2
    /\ samples[2].timestamp - samples[1].timestamp = sample_interval

----------------------------------------------------------------------------
(* Construction: the run starts before any allocator exists and calls a constructor *)

\* the capacities and the Pool parameters the constructors are called with
NewCapacities == {0, 16, UsizeMax}

NewChunkSizes == {0, 8}

NewChunkAligns == {0, 8, 12}

NewChunksPerBlock == {0, 2}

\* nothing is constructed yet
InitNew ==
    /\ ArenaIdle
    /\ StackIdle
    /\ DesIdle
    /\ PoolIdle
    /\ StatsIdle
    /\ SharedIdle
    /\ RegistryIdle
    /\ new_last = NewNoCall
    /\ subject = "none"
    /\ debug_build \in BOOLEAN

\* a faulty test: 0 passes for a power of two
is_power_of_two_or_zero(x) == BitAnd(x, (x + Word - 1) % Word, WordBits) = 0

\* usize::is_power_of_two
is_power_of_two(x) == x # 0 /\ BitAnd(x, x - 1, WordBits) = 0

\* Layout::from_size_align(size, align) is Ok: align is a power of two and size,
\* rounded up to align, does not exceed isize::MAX
LayoutOk(size, align) == is_power_of_two(align) /\ size <= IsizeMax - (align - 1)

\* assert!(capacity > 0, ...) fails in Arena::new, StackAllocator::new and
\* DoubleEndedStack::new
NewCapacityRejected(capacity) == ~(capacity > 0)

\* one of the three assert! of Pool::new fails
PoolNewRejected(size, align, per_block) ==
    \/ ~(size > 0)
    \/ ~is_power_of_two(align)
    \/ ~(per_block > 0)

\* the constructor of a bump allocator panics: the assert!, the expect on the
\* layout, or a null pointer returned by the system allocator
NewBufferPanics(capacity, null) ==
    \/ NewCapacityRejected(capacity)
    \/ ~LayoutOk(capacity, 16)
    \/ null

NewCalled(type, capacity, ok) ==
    [NewNoCall EXCEPT !.type = type, !.capacity = capacity, !.ok = ok]

\* Arena::new(capacity)
ArenaNew(capacity, null) ==
    /\ subject = "none"
    /\ IF NewBufferPanics(capacity, null)
       THEN /\ new_last' = NewCalled("Arena", capacity, FALSE)
            /\ UNCHANGED <<subject, arena_vars>>
       ELSE /\ new_last' = NewCalled("Arena", capacity, TRUE)
            /\ subject' = "Arena"
            /\ arena_capacity' = capacity
            /\ arena_offset' = 0
            /\ UNCHANGED <<arena_saved, arena_run, arena_last>>
    /\ UNCHANGED <<stack_vars, des_vars, pool_vars, stats_vars, shared_vars, registry_vars,
                   debug_build>>

\* StackAllocator::new(capacity)
StackNew(capacity, null) ==
    /\ subject = "none"
    /\ IF NewBufferPanics(capacity, null)
       THEN /\ new_last' = NewCalled("StackAllocator", capacity, FALSE)
            /\ UNCHANGED <<subject, stack_vars>>
       ELSE /\ new_last' = NewCalled("StackAllocator", capacity, TRUE)
            /\ subject' = "StackAllocator"
            /\ stack_capacity' = capacity
            /\ stack_offset' = 0
            /\ UNCHANGED <<stack_live, stack_saved, stack_lifo, stack_last>>
    /\ UNCHANGED <<arena_vars, des_vars, pool_vars, stats_vars, shared_vars, registry_vars,
                   debug_build>>

\* DoubleEndedStack::new(capacity)
DesNew(capacity, null) ==
    /\ subject = "none"
    /\ IF NewBufferPanics(capacity, null)
       THEN /\ new_last' = NewCalled("DoubleEndedStack", capacity, FALSE)
            /\ UNCHANGED <<subject, des_vars>>
       ELSE /\ new_last' = NewCalled("DoubleEndedStack", capacity, TRUE)
            /\ subject' = "DoubleEndedStack"
            /\ des_capacity' = capacity
            /\ bottom_offset' = 0
            /\ top_offset' = capacity
            /\ UNCHANGED des_last
    /\ UNCHANGED <<arena_vars, stack_vars, pool_vars, stats_vars, shared_vars, registry_vars,
                   debug_build>>

\* Pool::new(chunk_size, chunk_align, chunks_per_block)
PoolNew(size, align, per_block) ==
    /\ subject = "none"
    /\ LET called == [NewNoCall EXCEPT !.type = "Pool", !.chunk_size = size,
                                       !.chunk_align = align,
                                       !.chunks_per_block = per_block]
       IN  IF PoolNewRejected(size, align, per_block)
           THEN /\ new_last' = [called EXCEPT !.ok = FALSE]
                /\ UNCHANGED <<subject, pool_vars>>
           ELSE /\ new_last' = called
                /\ subject' = "Pool"
                /\ chunk_size' = size
                /\ chunk_align' = align
                /\ chunks_per_block' = per_block
                /\ UNCHANGED <<blocks, free_list, total_allocated, total_freed,
                               pool_live, pool_sound, pool_last, pool_boxes>>
    /\ UNCHANGED <<arena_vars, stack_vars, des_vars, stats_vars, shared_vars, registry_vars,
                   debug_build>>

\* a constructor is called; the allocator it returns is then used
NextNew ==
    \/ \E capacity \in NewCapacities, null \in BOOLEAN : ArenaNew(capacity, null)
    \/ \E capacity \in NewCapacities, null \in BOOLEAN : StackNew(capacity, null)
    \/ \E capacity \in NewCapacities, null \in BOOLEAN : DesNew(capacity, null)
    \/ \E size \in NewChunkSizes, align \in NewChunkAligns,
          per_block \in NewChunksPerBlock : PoolNew(size, align, per_block)
    \/ \E size \in RewindSizes, align \in RewindAligns : ArenaAlloc(size, align)
    \/ ArenaReset
    \/ \E size \in RewindSizes, align \in RewindAligns : StackAlloc(size, align)
    \/ StackClear
    \/ NextDes
    \/ NextPool

SpecNew == InitNew /\ [][NextNew]_vars

----------------------------------------------------------------------------
(* Properties of construction *)

\* x is one of 1, 2, 4, ...
PowerOfTwo(x) == \E k \in 0 .. (WordBits - 1) : x = 2^k

\* C24: Arena::new, StackAllocator::new and DoubleEndedStack::new called with
\* capacity 0, and Pool::new called with chunk_size 0, a chunk_align that is not a
\* power of two or chunks_per_block 0, panic in every build and leave no allocator
\* behind; every allocator that exists has a positive capacity or, for a Pool, a
\* positive chunk_size, a power-of-two chunk_align and a positive chunks_per_block.
ConstructionFailsFast ==
    /\ (new_last.type \in {"Arena", "StackAllocator", "DoubleEndedStack"}
           /\ new_last.capacity = 0) => ~new_last.ok
    /\ (new_last.type = "Pool"
           /\ (\/ new_last.chunk_size = 0
               \/ ~PowerOfTwo(new_last.chunk_align)
               \/ new_last.chunks_per_block = 0)) => ~new_last.ok
    /\ (new_last.type # "none" /\ ~new_last.ok) =>
           (subject = "none" /\ ArenaIdle /\ StackIdle /\ DesIdle /\ PoolIdle)
    /\ subject = "Arena" => arena_capacity > 0
    /\ subject = "StackAllocator" => stack_capacity > 0
    /\ subject = "DoubleEndedStack" => des_capacity > 0
    /\ subject = "Pool" =>
           (chunk_size > 0 /\ PowerOfTwo(chunk_align) /\ chunks_per_block > 0)

\* C24's case: Pool::new was called with chunk_align 0 in a release build and
\* panicked.
PoolNewZeroAlignRefused ==
    /\ subject = "none"
    /\ ~debug_build
    /\ new_last.type = "Pool"
    /\ new_last.chunk_size > 0
    /\ new_last.chunk_align = 0
    /\ new_last.chunks_per_block > 0
    /\ ~new_last.ok

----------------------------------------------------------------------------
(* Properties of the clears of the DoubleEndedStack *)

\* C25: clear_bottom sets the bottom cursor to 0 and leaves the top cursor where it
\* was; clear_top sets the top cursor to capacity and leaves the bottom cursor
\* where it was; clear does both, and then used() == 0 and available() == capacity.
DesClearsResetTheirCursor ==
    subject = "DoubleEndedStack" =>
        /\ des_last.op = "clear_bottom" =>
              (bottom_offset = 0 /\ top_offset = des_last.top)
        /\ des_last.op = "clear_top" =>
              (top_offset = des_capacity /\ bottom_offset = des_last.bottom)
        /\ des_last.op = "clear" =>
              /\ bottom_offset = 0
              /\ top_offset = des_capacity
              /\ DesUsed = 0
              /\ DesAvailable = des_capacity

\* C25's case: clear was called with both cursors moved.
DesClearedBothEndsUsed ==
    /\ subject = "DoubleEndedStack"
    /\ des_last.op = "clear"
    /\ des_last.bottom > 0
    /\ des_last.top < des_capacity

----------------------------------------------------------------------------
(* Properties of Pool::free *)

\* no address is on the free list twice
PoolFreeListDistinct == Cardinality({free_list[k] : k \in DOMAIN free_list}) = Len(free_list)

\* every address on the free list is a chunk of an owned block
PoolFreeListOwned == \A k \in DOMAIN free_list : free_list[k] \in PoolAllChunks

\* C26: a free of an address that is not currently allocated from the pool (a
\* foreign address, or a chunk that is already free) is rejected and leaves the
\* free list and the counters unchanged, so the free list never holds a duplicate
\* or a foreign address and chunks_in_use never goes below 0.
PoolFreeRejectsUnheld ==
    subject = "Pool" =>
        /\ (pool_last.op = "free" /\ ~pool_last.held) =>
              /\ Len(free_list) = pool_last.pre_free
              /\ PoolChunksInUse = pool_last.pre_in_use
        /\ PoolFreeListDistinct
        /\ PoolFreeListOwned
        /\ PoolChunksInUse >= 0

\* C26 (amended): free checks nothing: whatever address it is given, it pushes
\* the address on the free list and counts one more free. As long as every free
\* released a chunk the caller held, the free list holds no duplicate and no
\* foreign address and chunks_in_use is not below 0.
PoolFreeTrustsCaller ==
    subject = "Pool" =>
        /\ pool_last.op = "free" =>
              /\ Len(free_list) = pool_last.pre_free + 1
              /\ free_list[Len(free_list)] = pool_last.ptr
              /\ PoolChunksInUse = pool_last.pre_in_use - 1
        /\ pool_sound =>
              /\ PoolFreeListDistinct
              /\ PoolFreeListOwned
              /\ PoolChunksInUse >= 0

\* C26's case: a chunk that was already free was freed again, and is now on the
\* free list twice.
PoolDoubleFreeAccepted ==
    /\ subject = "Pool"
    /\ pool_last.op = "free"
    /\ ~pool_last.held
    /\ pool_last.ptr # Foreign
    /\ PoolFreeCount(pool_last.ptr) = 2

----------------------------------------------------------------------------
(* Properties of the StackAllocator's payloads *)

\* C27: the payload offset a successful StackAllocator::alloc(size, align) returns
\* is a multiple of align.
StackPayloadAligned ==
    (subject = "StackAllocator" /\ stack_last.op = "alloc" /\ stack_last.ok) =>
        stack_last.off % stack_last.align = 0

----------------------------------------------------------------------------
(* Properties of the Pool's chunks *)

\* the bytes of the chunk at ptr, as offsets from the base of its block
ChunkBytes(ptr) == ptr.off .. (ptr.off + chunk_size - 1)

\* C28: every address alloc returns lies at an offset from the base of its block
\* that is a multiple of chunk_align, and the chunks of a block occupy pairwise
\* disjoint byte ranges inside the block.
PoolChunksAlignedAndDisjoint ==
    subject = "Pool" =>
        /\ pool_last.op = "alloc" => pool_last.ptr.off % chunk_align = 0
        /\ \A b \in DOMAIN blocks :
              /\ \A i \in 0 .. (chunks_per_block - 1) :
                    ChunkBytes(ChunkPtr(blocks[b].memory, i))
                        \subseteq 0 .. (blocks[b].size - 1)
              /\ \A i, j \in 0 .. (chunks_per_block - 1) :
                    i # j => ChunkBytes(ChunkPtr(blocks[b].memory, i))
                                 \cap ChunkBytes(ChunkPtr(blocks[b].memory, j)) = {}

----------------------------------------------------------------------------
(* Properties of the StackAllocator's live allocations *)

\* the bytes of the header and of the payload of the caller's allocation e
StackHeaderBytes(e) == e.hdr .. (e.hdr + HeaderSize - 1)

StackPayloadBytes(e) == e.data .. (e.data + e.size - 1)

\* C29: as long as the caller keeps the LIFO discipline, the header and payload
\* byte ranges of the live allocations are pairwise disjoint and lie inside
\* [0, capacity), and the header in front of each live allocation holds the
\* allocation's size and the cursor value before the allocation was made.
StackLiveRangesDisjoint ==
    (subject = "StackAllocator" /\ stack_lifo) =>
        /\ \A i \in DOMAIN stack_live :
              LET e == stack_live[i]
              IN  /\ StackHeaderBytes(e) \cup StackPayloadBytes(e)
                         \subseteq 0 .. (stack_capacity - 1)
                  /\ StackHeaderBytes(e) \cap StackPayloadBytes(e) = {}
                  /\ e.h_size = e.size
                  /\ e.h_prev = e.used_before
        /\ \A i, j \in DOMAIN stack_live :
              i # j =>
                 (StackHeaderBytes(stack_live[i]) \cup StackPayloadBytes(stack_live[i]))
                     \cap (StackHeaderBytes(stack_live[j])
                               \cup StackPayloadBytes(stack_live[j])) = {}

\* C29's case: the stack was rewound below a mark the caller still holds, and
\* three allocations made since are live, the second one padded, filling the block.
StackThreeLiveAfterFree ==
    /\ subject = "StackAllocator"
    /\ stack_lifo
    /\ stack_saved # <<>>
    /\ ~stack_saved[1].valid
    /\ Len(stack_live) = 3
    /\ stack_live[2].hdr > stack_live[2].used_before
    /\ stack_offset = stack_capacity
    /\ stack_last.op = "alloc"

----------------------------------------------------------------------------
(* Properties of Pool::stats *)

\* Pool::stats: memory_used and memory_reserved
PoolMemoryUsed == (PoolChunksInUse * chunk_size) % Word

PoolMemoryReserved == (PoolTotalChunks * chunk_size) % Word

\* C30: as long as every free released a chunk the caller held, stats() is
\* consistent: chunks_in_use + chunks_free == total_chunks == total_blocks *
\* chunks_per_block, chunks_in_use == total_allocated - total_freed, which is the
\* number of chunks the caller holds, and memory_used <= memory_reserved.
PoolStatsConsistent ==
    (subject = "Pool" /\ pool_sound) =>
        /\ PoolChunksInUse + PoolChunksFree = PoolTotalChunks
        /\ PoolTotalChunks = PoolTotalBlocks * chunks_per_block
        /\ PoolChunksInUse = total_allocated - total_freed
        /\ PoolChunksInUse >= 0
        /\ PoolChunksInUse = Cardinality(pool_live \cup BoxPtrs)
        /\ PoolMemoryUsed <= PoolMemoryReserved
        /\ PoolMemoryUsed = PoolChunksInUse * chunk_size
        /\ PoolMemoryReserved = PoolTotalBlocks * chunks_per_block * chunk_size

\* C30's case: a pool with two blocks, after a free, with chunks in use and chunks
\* free.
PoolTwoBlocksPartlyFree ==
    /\ subject = "Pool" /\ pool_sound
    /\ PoolTotalBlocks = 2
    /\ chunks_per_block > 1
    /\ pool_last.op = "free"
    /\ PoolChunksInUse >= 2
    /\ PoolChunksFree >= 2

----------------------------------------------------------------------------
(* Properties of PoolBox *)

\* C21: creating a PoolBox takes exactly one chunk, one that nobody holds, and
\* raises chunks_in_use by one; dropping it gives exactly that chunk back, once:
\* chunks_in_use is then its value before the lease was created plus whatever the
\* other calls made in between added, the chunk is on the free list once and it
\* is the one the next alloc returns.
PoolBoxTakesAndReturnsOneChunk ==
    subject = "Pool" =>
        /\ pool_last.op = "box_new" =>
              /\ pool_last.fresh
              /\ PoolChunksInUse = pool_last.pre_in_use + 1
              /\ pool_last.ptr \in PoolAllChunks
              /\ PoolFreeCount(pool_last.ptr) = 0
        /\ pool_last.op = "box_drop" =>
              /\ PoolChunksInUse = pool_last.lease.before + pool_last.lease.others
              /\ PoolChunksInUse = pool_last.pre_in_use - 1
              /\ PoolFreeCount(pool_last.lease.ptr) = 1
              /\ free_list[Len(free_list)] = pool_last.lease.ptr
              /\ PoolChunksFree = pool_last.pre_free + 1
              /\ pool_last.lease.ptr \notin (pool_live \cup BoxPtrs)

\* C21's case: a lease on a chunk that is not the first of its block was dropped
\* in a run of at least three allocations, the other calls made in its scope
\* cancelled out, and chunks_in_use is back to what it was before the lease.
PoolBoxDroppedAfterOtherCalls ==
    /\ subject = "Pool"
    /\ pool_last.op = "box_drop"
    /\ pool_last.lease.ptr.off > 0
    /\ pool_last.lease.others = 0
    /\ total_allocated >= 3
    /\ PoolChunksInUse = pool_last.lease.before

----------------------------------------------------------------------------
(* The whole model: one run drives one allocator object. *)

Init ==
    InitBump \/ InitDes \/ InitPool \/ InitStats \/ InitShared \/ InitManager
        \/ InitProfiler \/ InitNew

Next ==
    NextBump \/ NextDes \/ NextPool \/ NextPoolBox \/ NextStats \/ NextShared
        \/ NextManager \/ NextProfiler \/ NextNew

Spec == Init /\ [][Next]_vars

====
